---- MODULE Spec2Model ----
(***************************************************************************)
(* The file-lifecycle service of the backend (services/file.service.js):   *)
(* uploadFile, getFileById, updateFileById and deleteFileById, each an     *)
(* async function whose awaits on the storage provider and on the database *)
(* are separate steps, so that several requests interleave at every await  *)
(* and every awaited call may reject (Spec); the same functions over a     *)
(* table that holds several rows (ReplaceSpec, and ReadSpec with the       *)
(* lists); its queryUserFiles over tables of several rows (ListSpec), and  *)
(* called page after page (PageSpec); the frontend's useFileUpload hook    *)
(* with the auto-upload effect of FileUploadPage (HookSpec); and           *)
(* authService.login (AuthSpec) and logout (LogoutSpec).                   *)
(***************************************************************************)
EXTENDS Integers, Sequences, FiniteSets, TLC

\* ------------------------------------------------------------------ bounds
MaxCalls == 2      \* requests that may be in progress at the same time
MaxIds == 1        \* records the database ever creates (autoincrement ids)
MaxUuid == 3       \* uuid() values ever drawn (storage keys ever generated)
MaxUrls == 2       \* distinct signed URLs the provider may issue for one key

Calls == 1..MaxCalls
Users == {1, 2}
\* who uploads: with the records the bounds allow, which user owns them is
\* symmetric, and the other user is the one asking for files that are not theirs
Uploaders == {1}
\* ids a request may name: every id the database can hold; each is absent before
\* its upload and after its delete
Ids == 1..MaxIds
\* an id the autoincrement counter never reaches
AbsentId == MaxIds + 1
\* the signatures a signed URL may carry: two URLs for one key may differ or agree
UrlSerials == 1..MaxUrls

\* ------------------------------------------------------- program constants
allowedTypes ==
    { "application/pdf",
      "application/msword",
      "application/vnd.openxmlformats-officedocument.wordprocessingml.document",
      "text/plain",
      "image/png",
      "image/jpeg",
      "image/jpg",
      "image/gif" }

maxSize == 10 * 1024 * 1024

UNSUPPORTED_MEDIA_TYPE == 415
REQUEST_ENTITY_TOO_LARGE == 413
NOT_FOUND == 404
INTERNAL_SERVER_ERROR == 500

\* ------------------------------------------------------------------ inputs
\* File names are sequences of characters; a buffer is known by its length.
Payloads ==
    { [originalname |-> <<"a", ".", "p">>, mimetype |-> "application/pdf", size |-> 1024],
      [originalname |-> <<"b">>, mimetype |-> "image/jpeg", size |-> maxSize],
      [originalname |-> <<"c", ".", "x">>, mimetype |-> "application/exe", size |-> 1024],
      [originalname |-> <<"a", ".", "p">>, mimetype |-> "application/pdf", size |-> maxSize + 1],
      [originalname |-> <<"c", ".", "x">>, mimetype |-> "application/exe", size |-> maxSize + 1] }

\* ------------------------------------------------------------ empty values
NoData == [originalname |-> << >>, mimetype |-> "", size |-> 0]
NoFilename == [uuid |-> 0, ext |-> << >>]
NoKey == [userId |-> 0, filename |-> NoFilename]
NoUrl == [key |-> NoKey, n |-> 0]
\* what findFirst resolves to when no row matches (null)
NoFile ==
    [id |-> 0, filename |-> NoFilename, originalName |-> << >>, contentType |-> "",
     size |-> 0, signedUrl |-> NoUrl, userId |-> 0]
NoResult == [kind |-> "none", status |-> 0, file |-> NoFile]

VARIABLES
    db,        \* the File table: a set of rows
    blobs,     \* the storage bucket: a set of objects [key, contentType, size]
    calls,     \* the requests: each slot is idle, in progress at an await, or done
    nextId,    \* the table's autoincrement counter
    nextUuid,  \* the next uuid() value
    pristine,  \* history: [id, fileData] of the records still holding what upload wrote
    failedOn,  \* history: ids named by an update or delete that ended in an internal error
    query,        \* the call of queryUserFiles: idle, or returned with its result
    uploadState,  \* useFileUpload: the state object of the hook
    mutation,     \* useFileUpload: the status of the useMutation observer
    requests,     \* the uploads the browser has in flight
    cancelled,    \* history: cancel was invoked and the user has done nothing since
    authData,     \* what setAuthData stored (the browser's auth storage)
    login,        \* the call of authService.login
    logout,       \* the call of authService.logout
    pager         \* a client that asks for the pages of a list one after the other

\* what the file-lifecycle functions leave alone: the list call and the frontend
outside == <<query, uploadState, mutation, requests, cancelled, authData, login, logout, pager>>

vars == <<db, blobs, calls, nextId, nextUuid, pristine, failedOn, outside>>

\* ----------------------------------------------------------------- helpers
RECURSIVE LastDot(_, _)
LastDot(s, i) ==
    IF i = 0 THEN 0
    ELSE IF s[i] = "." THEN i
    ELSE LastDot(s, i - 1)

\* path.extname: from the last "." to the end; empty when there is none or when
\* the name starts with its only "."
extname(name) ==
    LET d == LastDot(name, Len(name))
    IN IF d <= 1 THEN << >> ELSE SubSeq(name, d, Len(name))

\* `${uuid()}${fileExtension}`
NewFilename(u, originalname) == [uuid |-> u, ext |-> extname(originalname)]

\* `files/${userId}/${filename}`
Key(userId, filename) == [userId |-> userId, filename |-> filename]

\* ---------------------------------------------------------------- storage
uploadData(store, key, fileData) ==
    {b \in store : b.key # key}
        \cup {[key |-> key, contentType |-> fileData.mimetype, size |-> fileData.size]}

deleteFile(store, key) == {b \in store : b.key # key}

generateDownloadSignedUrl(key, n) == [key |-> key, n |-> n]

\* --------------------------------------------------------------- database
\* a slip: the lookup is not scoped by the caller
findFirst_AnyOwner(table, id, userId) ==
    IF \E f \in table : f.id = id
    THEN CHOOSE f \in table : f.id = id
    ELSE NoFile

findFirst(table, id, userId) ==
    IF \E f \in table : f.id = id /\ f.userId = userId
    THEN CHOOSE f \in table : f.id = id /\ f.userId = userId
    ELSE NoFile

Exists(table, id) == \E f \in table : f.id = id

Row(table, id) == CHOOSE f \in table : f.id = id

\* ----------------------------------------------------------------- results
Ok(file) == [kind |-> "ok", status |-> 0, file |-> file]
ApiError(status) == [kind |-> "ApiError", status |-> status, file |-> NoFile]
\* a rejection of the database or storage client that nothing caught
RawError == [kind |-> "raw", status |-> 0, file |-> NoFile]
Null == [kind |-> "null", status |-> 0, file |-> NoFile]

Idle ==
    [op |-> "none", pc |-> "idle", id |-> 0, userId |-> 0, fileData |-> NoData,
     file |-> NoFile, filename |-> NoFilename, signedUrl |-> NoUrl,
     error |-> "none", result |-> NoResult]

\* JavaScript's null and undefined, where a string or a number is expected
null == "null"
undefined == "undefined"

\* queryUserFiles not yet called
NoOptions == [page |-> undefined, limit |-> undefined, sortBy |-> undefined,
              sortType |-> undefined]
IdleQuery == [pc |-> "idle", userId |-> 0, options |-> NoOptions, files |-> << >>,
              error |-> "none"]

\* useFileUpload: no FileUploadResponse, and the state useState starts with
NoResponse == [filename |-> null]
InitialUploadState ==
    [status |-> "idle", progress |-> 0, file |-> null, result |-> NoResponse,
     error |-> null]

\* the useMutation observer before any mutate, and after reset()
IdleMutation == [status |-> "idle", n |-> 0]

\* authService.login not yet called
NoError == [response |-> FALSE, status |-> 0, code |-> "none"]
IdleLogin == [pc |-> "idle", credentials |-> null, mock |-> FALSE, error |-> NoError,
              outcome |-> "none", result |-> null]

\* authService.logout not yet called
IdleLogout == [pc |-> "idle", mock |-> FALSE, refreshToken |-> null, error |-> NoError,
               outcome |-> "none", cleared |-> 0]

\* no client is asking for pages
IdlePager == [pc |-> "idle", userId |-> 0, options |-> << >>, page |-> 0, seen |-> << >>]

\* the backend with an empty table and an empty bucket, the page just mounted,
\* nobody logged in
Init ==
    /\ db = {}
    /\ blobs = {}
    /\ calls = [c \in Calls |-> Idle]
    /\ nextId = 1
    /\ nextUuid = 1
    /\ pristine = {}
    /\ failedOn = {}
    /\ query = IdleQuery
    /\ uploadState = InitialUploadState
    /\ mutation = IdleMutation
    /\ requests = {}
    /\ cancelled = FALSE
    /\ authData = null
    /\ login = IdleLogin
    /\ logout = IdleLogout
    /\ pager = IdlePager

\* A call that has returned is answered in the same turn of the event loop: the
\* controller's continuation and res.send run before any other request's await
\* resumes, so no step of another call falls between a return and Return.
Answered == \A c \in Calls : calls[c].pc # "done"

Finish(c, call, result) ==
    calls' = [calls EXCEPT ![c] = [call EXCEPT !.pc = "done", !.result = result]]

\* a slip: the type check is missing
Validate_NoTypeCheck(fileData) ==
    IF fileData.size > maxSize THEN ApiError(REQUEST_ENTITY_TOO_LARGE) ELSE NoResult

\* a slip: a file of exactly the maximum size is refused
Validate_OffByOne(fileData) ==
    IF fileData.mimetype \notin allowedTypes THEN ApiError(UNSUPPORTED_MEDIA_TYPE)
    ELSE IF fileData.size >= maxSize THEN ApiError(REQUEST_ENTITY_TOO_LARGE)
    ELSE NoResult

\* the two checks of uploadFile: the error thrown, or NoResult when the payload
\* passes
Validate(fileData) ==
    IF fileData.mimetype \notin allowedTypes THEN ApiError(UNSUPPORTED_MEDIA_TYPE)
    ELSE IF fileData.size > maxSize THEN ApiError(REQUEST_ENTITY_TOO_LARGE)
    ELSE NoResult

\* ------------------------------------------------------------- uploadFile
\* a slip: the rejection is swallowed and the call resolves with nothing
UploadCatch_Swallows(c, call, step) ==
    Finish(c, [call EXCEPT !.error = step], Ok(NoFile))

\* the catch block of uploadFile
UploadCatch(c, call, step) ==
    Finish(c, [call EXCEPT !.error = step], ApiError(INTERNAL_SERVER_ERROR))

\* The type and size checks, the new key and the awaited storage.uploadData.
uploadFile(c, fileData, userId) ==
    /\ Answered
    /\ calls[c].pc = "idle"
    /\ LET call == [Idle EXCEPT !.op = "upload", !.userId = userId, !.fileData = fileData]
           filename == NewFilename(nextUuid, fileData.originalname)
       IN IF Validate(fileData) # NoResult
          THEN /\ Finish(c, call, Validate(fileData))
               /\ UNCHANGED <<db, blobs, nextId, nextUuid, pristine, failedOn>>
          ELSE /\ nextUuid <= MaxUuid
               /\ nextId + Cardinality({d \in Calls : calls[d].pc = "up_sign"}) <= MaxIds
               /\ nextUuid' = nextUuid + 1
               /\ \/ /\ blobs' = uploadData(blobs, Key(userId, filename), fileData)
                     /\ calls' = [calls EXCEPT ![c] =
                            [call EXCEPT !.pc = "up_sign", !.filename = filename]]
                  \/ /\ blobs' = blobs
                     /\ UploadCatch(c, [call EXCEPT !.filename = filename], "uploadData")
               /\ UNCHANGED <<db, nextId, pristine, failedOn>>
    /\ UNCHANGED outside

\* a slip: the generated name's extension is stored as the original name
CreateData_WrongName(call, signedUrl) ==
    [id |-> nextId,
     filename |-> call.filename,
     originalName |-> call.filename.ext,
     contentType |-> call.fileData.mimetype,
     size |-> call.fileData.size,
     signedUrl |-> signedUrl,
     userId |-> call.userId]

\* the row prisma.file.create makes of uploadFile's data
CreateData(call, signedUrl) ==
    [id |-> nextId,
     filename |-> call.filename,
     originalName |-> call.fileData.originalname,
     contentType |-> call.fileData.mimetype,
     size |-> call.fileData.size,
     signedUrl |-> signedUrl,
     userId |-> call.userId]

\* a variant: the blob is removed again when the row cannot be created
uploadFile_create_RollsBack(c) ==
    /\ Answered
    /\ calls[c].pc = "up_sign"
    /\ LET call == calls[c]
       IN \/ /\ UploadCatch(c, call, "generateDownloadSignedUrl")
             /\ UNCHANGED <<db, blobs, nextId, pristine>>
          \/ \E n \in UrlSerials :
               LET signedUrl == generateDownloadSignedUrl(Key(call.userId, call.filename), n)
               IN \/ /\ db' = db \cup {CreateData(call, signedUrl)}
                     /\ nextId' = nextId + 1
                     /\ pristine' = pristine \cup {[id |-> nextId, fileData |-> call.fileData]}
                     /\ Finish(c, [call EXCEPT !.signedUrl = signedUrl],
                               Ok(CreateData(call, signedUrl)))
                     /\ blobs' = blobs
                  \/ /\ UNCHANGED <<db, nextId, pristine>>
                     /\ blobs' = deleteFile(blobs, Key(call.userId, call.filename))
                     /\ UploadCatch(c, [call EXCEPT !.signedUrl = signedUrl], "create")
    /\ UNCHANGED <<nextUuid, failedOn>>
    /\ UNCHANGED outside

\* The awaited storage.generateDownloadSignedUrl, then the awaited
\* prisma.file.create. Signing touches nothing another request reads, so the two
\* awaits are one step: the URL is issued right before the row is written.
uploadFile_create(c) ==
    /\ Answered
    /\ calls[c].pc = "up_sign"
    /\ LET call == calls[c]
       IN \/ /\ UploadCatch(c, call, "generateDownloadSignedUrl")
             /\ UNCHANGED <<db, nextId, pristine>>
          \/ \E n \in UrlSerials :
               LET signedUrl == generateDownloadSignedUrl(Key(call.userId, call.filename), n)
               IN \/ /\ db' = db \cup {CreateData(call, signedUrl)}
                     /\ nextId' = nextId + 1
                     /\ pristine' = pristine \cup {[id |-> nextId, fileData |-> call.fileData]}
                     /\ Finish(c, [call EXCEPT !.signedUrl = signedUrl],
                               Ok(CreateData(call, signedUrl)))
                  \/ /\ UNCHANGED <<db, nextId, pristine>>
                     /\ UploadCatch(c, [call EXCEPT !.signedUrl = signedUrl], "create")
    /\ UNCHANGED <<blobs, nextUuid, failedOn>>
    /\ UNCHANGED outside

\* ------------------------------------------------------------ getFileById
\* what getFileById does once the lookup has resolved to `file`: it returns null
\* when no row matched, otherwise it goes on to refresh the signed URL
GetLookup(call, file) ==
    IF file = NoFile
    THEN [call EXCEPT !.pc = "done", !.result = Null]
    ELSE [call EXCEPT !.pc = "g_sign", !.file = file]

\* the awaited prisma.file.findFirst of getFileById
getFileById(c, id, userId) ==
    /\ Answered
    /\ calls[c].pc = "idle"
    /\ LET call == [Idle EXCEPT !.op = "get", !.id = id, !.userId = userId]
       IN \/ calls' = [calls EXCEPT ![c] = GetLookup(call, findFirst(db, id, userId))]
          \/ Finish(c, [call EXCEPT !.error = "findFirst"], RawError)
    /\ UNCHANGED <<db, blobs, nextId, nextUuid, pristine, failedOn>>
    /\ UNCHANGED outside

\* a slip: the failure is passed on as in the other functions
GetCatch_Throws(call) == ApiError(INTERNAL_SERVER_ERROR)

\* the catch block of getFileById: the file as it was read
GetCatch(call) == Ok(call.file)

\* a slip: the fresh URL is not written
GetUpdatedRow_KeepsUrl(table, call, signedUrl) == Row(table, call.id)

\* a slip: the file as it was read is written back whole, with the fresh URL
GetUpdatedRow_WritesFile(table, call, signedUrl) ==
    [call.file EXCEPT !.signedUrl = signedUrl]

\* prisma.file.update({ where: { id }, data: { signedUrl } }): the row after it
GetUpdatedRow(table, call, signedUrl) ==
    [Row(table, call.id) EXCEPT !.signedUrl = signedUrl]

\* a slip: the URL is written with an upsert, which creates the row when it is gone
getFileById_update_Upserts(c) ==
    /\ Answered
    /\ calls[c].pc = "g_sign"
    /\ \E n \in UrlSerials :
         LET call == calls[c]
             signedUrl == generateDownloadSignedUrl(Key(call.userId, call.file.filename), n)
             row == [call.file EXCEPT !.signedUrl = signedUrl]
         IN /\ db' = {f \in db : f.id # call.id} \cup {row}
            /\ Finish(c, [call EXCEPT !.signedUrl = signedUrl], Ok(row))
    /\ UNCHANGED <<blobs, nextId, nextUuid, pristine, failedOn>>
    /\ UNCHANGED outside

\* The awaited storage.generateDownloadSignedUrl, then the awaited
\* prisma.file.update (one step, as in uploadFile_create). The update rejects
\* when the row is gone.
getFileById_update(c) ==
    /\ Answered
    /\ calls[c].pc = "g_sign"
    /\ LET call == calls[c]
       IN \/ /\ Finish(c, [call EXCEPT !.error = "generateDownloadSignedUrl"], GetCatch(call))
             /\ db' = db
          \/ \E n \in UrlSerials :
               LET signedUrl == generateDownloadSignedUrl(
                                    Key(call.userId, call.file.filename), n)
               IN \/ /\ Exists(db, call.id)
                     /\ db' = (db \ {Row(db, call.id)})
                                 \cup {GetUpdatedRow(db, call, signedUrl)}
                     /\ Finish(c, [call EXCEPT !.signedUrl = signedUrl],
                               Ok(GetUpdatedRow(db, call, signedUrl)))
                  \/ /\ db' = db
                     /\ Finish(c, [call EXCEPT !.signedUrl = signedUrl, !.error = "update"],
                               GetCatch(call))
    /\ UNCHANGED <<blobs, nextId, nextUuid, pristine, failedOn>>
    /\ UNCHANGED outside

\* the controller's getFile: a null from the service becomes 404
getFile(result) == IF result.kind = "null" THEN ApiError(NOT_FOUND) ELSE result

\* --------------------------------------------------------- updateFileById
\* Of the file they looked up, updateFileById and deleteFileById later read the
\* filename alone (the controller drops what deleteFileById returns).
Existing(file) == [NoFile EXCEPT !.id = file.id, !.userId = file.userId,
                                 !.filename = file.filename]

\* updateFileById's own copies of the allow-list and of the limit
allowedTypesOfUpdate ==
    { "application/pdf",
      "application/msword",
      "application/vnd.openxmlformats-officedocument.wordprocessingml.document",
      "text/plain",
      "image/png",
      "image/jpeg",
      "image/jpg",
      "image/gif" }

maxSizeOfUpdate == 10 * 1024 * 1024

\* a slip: the copy of the size check refuses a file of exactly the maximum size
ValidateUpdate_OffByOne(fileData) ==
    IF fileData.mimetype \notin allowedTypesOfUpdate THEN ApiError(UNSUPPORTED_MEDIA_TYPE)
    ELSE IF fileData.size >= maxSizeOfUpdate THEN ApiError(REQUEST_ENTITY_TOO_LARGE)
    ELSE NoResult

\* the two checks of updateFileById: the error thrown, or NoResult when the payload
\* passes
ValidateUpdate(fileData) ==
    IF fileData.mimetype \notin allowedTypesOfUpdate THEN ApiError(UNSUPPORTED_MEDIA_TYPE)
    ELSE IF fileData.size > maxSizeOfUpdate THEN ApiError(REQUEST_ENTITY_TOO_LARGE)
    ELSE NoResult

\* what updateFileById does once the lookup has resolved to `file`
UpdateLookup(call, file) ==
    IF file = NoFile
    THEN [call EXCEPT !.pc = "done", !.result = ApiError(NOT_FOUND)]
    ELSE IF ValidateUpdate(call.fileData) # NoResult
    THEN [call EXCEPT !.pc = "done", !.file = Existing(file),
                      !.result = ValidateUpdate(call.fileData)]
    ELSE [call EXCEPT !.pc = "u_del", !.file = Existing(file)]

\* the awaited prisma.file.findFirst of updateFileById, and the two checks
updateFileById(c, id, userId, fileData) ==
    /\ Answered
    /\ calls[c].pc = "idle"
    /\ LET call == [Idle EXCEPT !.op = "update", !.id = id, !.userId = userId,
                                !.fileData = fileData]
       IN \/ calls' = [calls EXCEPT ![c] = UpdateLookup(call, findFirst(db, id, userId))]
          \/ Finish(c, [call EXCEPT !.error = "findFirst"], RawError)
    /\ UNCHANGED <<db, blobs, nextId, nextUuid, pristine, failedOn>>
    /\ UNCHANGED outside

\* a slip: the rejection is swallowed and the call resolves with nothing
UpdateCatch_Swallows(c, call, step) ==
    /\ Finish(c, [call EXCEPT !.error = step], Ok(NoFile))
    /\ failedOn' = failedOn \cup {call.id}

\* the catch block of updateFileById
UpdateCatch(c, call, step) ==
    /\ Finish(c, [call EXCEPT !.error = step], ApiError(INTERNAL_SERVER_ERROR))
    /\ failedOn' = failedOn \cup {call.id}

\* a slip: the old blob is left in storage
updateFileById_deleteFile_Skips(c) ==
    /\ Answered
    /\ calls[c].pc = "u_del"
    /\ calls' = [calls EXCEPT ![c] = [calls[c] EXCEPT !.pc = "u_put"]]
    /\ UNCHANGED <<db, blobs, nextId, nextUuid, pristine, failedOn>>
    /\ UNCHANGED outside

\* a slip: deleting a key that has no blob is an error
updateFileById_deleteFile_Strict(c) ==
    /\ Answered
    /\ calls[c].pc = "u_del"
    /\ LET call == calls[c]
       IN \/ /\ \E b \in blobs : b.key = Key(call.userId, call.file.filename)
             /\ blobs' = deleteFile(blobs, Key(call.userId, call.file.filename))
             /\ calls' = [calls EXCEPT ![c] = [call EXCEPT !.pc = "u_put"]]
             /\ failedOn' = failedOn
          \/ /\ blobs' = blobs
             /\ UpdateCatch(c, call, "deleteFile")
    /\ UNCHANGED <<db, nextId, nextUuid, pristine>>
    /\ UNCHANGED outside

\* the awaited storage.deleteFile of the old key
updateFileById_deleteFile(c) ==
    /\ Answered
    /\ calls[c].pc = "u_del"
    /\ LET call == calls[c]
       IN \/ /\ blobs' = deleteFile(blobs, Key(call.userId, call.file.filename))
             /\ calls' = [calls EXCEPT ![c] = [call EXCEPT !.pc = "u_put"]]
             /\ failedOn' = failedOn
          \/ /\ blobs' = blobs
             /\ UpdateCatch(c, call, "deleteFile")
    /\ UNCHANGED <<db, nextId, nextUuid, pristine>>
    /\ UNCHANGED outside

\* a slip: storage.uploadData is not awaited, and the call goes on when it rejects
updateFileById_uploadData_NotAwaited(c) ==
    /\ Answered
    /\ calls[c].pc = "u_put"
    /\ nextUuid <= MaxUuid
    /\ nextUuid' = nextUuid + 1
    /\ LET call == calls[c]
           filename == NewFilename(nextUuid, call.fileData.originalname)
       IN /\ \/ blobs' = uploadData(blobs, Key(call.userId, filename), call.fileData)
             \/ blobs' = blobs
          /\ calls' = [calls EXCEPT ![c] =
                 [call EXCEPT !.pc = "u_sign", !.filename = filename]]
    /\ UNCHANGED <<db, nextId, pristine, failedOn>>
    /\ UNCHANGED outside

\* the new key, and the awaited storage.uploadData
updateFileById_uploadData(c) ==
    /\ Answered
    /\ calls[c].pc = "u_put"
    /\ nextUuid <= MaxUuid
    /\ nextUuid' = nextUuid + 1
    /\ LET call == calls[c]
           filename == NewFilename(nextUuid, call.fileData.originalname)
       IN \/ /\ blobs' = uploadData(blobs, Key(call.userId, filename), call.fileData)
             /\ calls' = [calls EXCEPT ![c] =
                    [call EXCEPT !.pc = "u_sign", !.filename = filename]]
             /\ failedOn' = failedOn
          \/ /\ blobs' = blobs
             /\ UpdateCatch(c, [call EXCEPT !.filename = filename], "uploadData")
    /\ UNCHANGED <<db, nextId, pristine>>
    /\ UNCHANGED outside

\* a slip: the new filename is not written
UpdatedRow_KeepsFilename(table, call, signedUrl) ==
    [Row(table, call.id) EXCEPT
        !.originalName = call.fileData.originalname,
        !.contentType = call.fileData.mimetype,
        !.size = call.fileData.size,
        !.signedUrl = signedUrl]

\* a slip: the size and the content type are not written
UpdatedRow_KeepsSize(table, call, signedUrl) ==
    [Row(table, call.id) EXCEPT
        !.filename = call.filename,
        !.originalName = call.fileData.originalname,
        !.signedUrl = signedUrl]

\* a slip: the row is written anew and its upload time is lost
UpdatedRow_LosesUploadedAt(table, call, signedUrl) ==
    [Row(table, call.id) EXCEPT
        !.filename = call.filename,
        !.originalName = call.fileData.originalname,
        !.contentType = call.fileData.mimetype,
        !.size = call.fileData.size,
        !.signedUrl = signedUrl,
        !.uploadedAt = 0]

\* prisma.file.update({ where: { id }, data: {...} }): the row after it
UpdatedRow(table, call, signedUrl) ==
    [Row(table, call.id) EXCEPT
        !.filename = call.filename,
        !.originalName = call.fileData.originalname,
        !.contentType = call.fileData.mimetype,
        !.size = call.fileData.size,
        !.signedUrl = signedUrl]

\* The awaited storage.generateDownloadSignedUrl of the new key, then the awaited
\* prisma.file.update (one step, as in uploadFile_create). The update rejects
\* when the row is gone.
updateFileById_update(c) ==
    /\ Answered
    /\ calls[c].pc = "u_sign"
    /\ LET call == calls[c]
       IN \/ /\ UpdateCatch(c, call, "generateDownloadSignedUrl")
             /\ UNCHANGED <<db, pristine>>
          \/ \E n \in UrlSerials :
               LET signedUrl == generateDownloadSignedUrl(Key(call.userId, call.filename), n)
               IN \/ /\ Exists(db, call.id)
                     /\ db' = (db \ {Row(db, call.id)}) \cup {UpdatedRow(db, call, signedUrl)}
                     /\ pristine' = {e \in pristine : e.id # call.id}
                     /\ Finish(c, [call EXCEPT !.signedUrl = signedUrl],
                               Ok(UpdatedRow(db, call, signedUrl)))
                     /\ failedOn' = failedOn
                  \/ /\ UNCHANGED <<db, pristine>>
                     /\ UpdateCatch(c, [call EXCEPT !.signedUrl = signedUrl], "update")
    /\ UNCHANGED <<blobs, nextId, nextUuid>>
    /\ UNCHANGED outside

\* --------------------------------------------------------- deleteFileById
\* what deleteFileById does once the lookup has resolved to `file`
DeleteLookup(call, file) ==
    IF file = NoFile
    THEN [call EXCEPT !.pc = "done", !.result = ApiError(NOT_FOUND)]
    ELSE [call EXCEPT !.pc = "d_del", !.file = Existing(file)]

\* the awaited prisma.file.findFirst of deleteFileById
deleteFileById(c, id, userId) ==
    /\ Answered
    /\ calls[c].pc = "idle"
    /\ LET call == [Idle EXCEPT !.op = "delete", !.id = id, !.userId = userId]
       IN \/ calls' = [calls EXCEPT ![c] = DeleteLookup(call, findFirst(db, id, userId))]
          \/ Finish(c, [call EXCEPT !.error = "findFirst"], RawError)
    /\ UNCHANGED <<db, blobs, nextId, nextUuid, pristine, failedOn>>
    /\ UNCHANGED outside

\* the catch block of deleteFileById
DeleteCatch(c, call, step) ==
    /\ Finish(c, [call EXCEPT !.error = step], ApiError(INTERNAL_SERVER_ERROR))
    /\ failedOn' = failedOn \cup {call.id}

\* a slip: storage.deleteFile is not awaited, and the call goes on when it rejects
deleteFileById_deleteFile_NotAwaited(c) ==
    /\ Answered
    /\ calls[c].pc = "d_del"
    /\ LET call == calls[c]
       IN /\ \/ blobs' = deleteFile(blobs, Key(call.userId, call.file.filename))
             \/ blobs' = blobs
          /\ calls' = [calls EXCEPT ![c] = [call EXCEPT !.pc = "d_db"]]
    /\ UNCHANGED <<db, nextId, nextUuid, pristine, failedOn>>
    /\ UNCHANGED outside

\* the awaited storage.deleteFile of deleteFileById
deleteFileById_deleteFile(c) ==
    /\ Answered
    /\ calls[c].pc = "d_del"
    /\ LET call == calls[c]
       IN \/ /\ blobs' = deleteFile(blobs, Key(call.userId, call.file.filename))
             /\ calls' = [calls EXCEPT ![c] = [call EXCEPT !.pc = "d_db"]]
             /\ failedOn' = failedOn
          \/ /\ blobs' = blobs
             /\ DeleteCatch(c, call, "deleteFile")
    /\ UNCHANGED <<db, nextId, nextUuid, pristine>>
    /\ UNCHANGED outside

\* a slip: the row is not deleted
deleteFileById_delete_KeepsRow(c) ==
    /\ Answered
    /\ calls[c].pc = "d_db"
    /\ Finish(c, calls[c], Ok(calls[c].file))
    /\ UNCHANGED <<db, blobs, nextId, nextUuid, pristine, failedOn>>
    /\ UNCHANGED outside

\* a slip: the row is removed and the call still reports an internal error
deleteFileById_delete_ThenFails(c) ==
    /\ Answered
    /\ calls[c].pc = "d_db"
    /\ db' = {f \in db : f.id # calls[c].id}
    /\ pristine' = {e \in pristine : e.id # calls[c].id}
    /\ DeleteCatch(c, calls[c], "delete")
    /\ UNCHANGED <<blobs, nextId, nextUuid>>
    /\ UNCHANGED outside

\* the awaited prisma.file.delete of deleteFileById; it rejects when the row is gone
deleteFileById_delete(c) ==
    /\ Answered
    /\ calls[c].pc = "d_db"
    /\ LET call == calls[c]
       IN \/ /\ Exists(db, call.id)
             /\ db' = db \ {Row(db, call.id)}
             /\ pristine' = {e \in pristine : e.id # call.id}
             /\ Finish(c, call, Ok(call.file))
             /\ failedOn' = failedOn
          \/ /\ UNCHANGED <<db, pristine>>
             /\ DeleteCatch(c, call, "delete")
    /\ UNCHANGED <<blobs, nextId, nextUuid>>
    /\ UNCHANGED outside

\* the response is sent and the request is over
Return(c) ==
    /\ calls[c].pc = "done"
    /\ calls' = [calls EXCEPT ![c] = Idle]
    /\ UNCHANGED <<db, blobs, nextId, nextUuid, pristine, failedOn>>
    /\ UNCHANGED outside

Next ==
    \/ \E c \in Calls, fileData \in Payloads, userId \in Uploaders : uploadFile(c, fileData, userId)
    \/ \E c \in Calls : uploadFile_create(c)
    \/ \E c \in Calls, id \in Ids, userId \in Users : getFileById(c, id, userId)
    \/ \E c \in Calls : getFileById_update(c)
    \/ \E c \in Calls, id \in Ids, userId \in Users, fileData \in Payloads :
            updateFileById(c, id, userId, fileData)
    \/ \E c \in Calls : updateFileById_deleteFile(c)
    \/ \E c \in Calls : updateFileById_uploadData(c)
    \/ \E c \in Calls : updateFileById_update(c)
    \/ \E c \in Calls, id \in Ids, userId \in Users : deleteFileById(c, id, userId)
    \/ \E c \in Calls : deleteFileById_deleteFile(c)
    \/ \E c \in Calls : deleteFileById_delete(c)
    \/ \E c \in Calls : Return(c)

Spec == Init /\ [][Next]_vars

\* ------------------------------------------------------------ vocabulary
InProgress(c) == calls[c].pc \notin {"idle", "done"}

\* the call in slot c has just returned (its response is not yet sent)
Returned(c, op) == calls[c].op = op /\ calls[c].pc = "done"

\* no upload, update or delete call is in progress
NoWriteInProgress ==
    \A c \in Calls : calls[c].op \in {"upload", "update", "delete"} => ~InProgress(c)

\* the blobs in storage at files/<userId>/<filename> of the row
BlobsAt(store, file) == {b \in store : b.key = Key(file.userId, file.filename)}

C2_UploadThenGet ==
    \A c \in Calls : Returned(c, "get") =>
        /\ calls[c].result.kind = "ok" =>
              \A e \in pristine : e.id = calls[c].result.file.id =>
                  /\ e.id = calls[c].id
                  /\ e.fileData.mimetype \in allowedTypes /\ e.fileData.size <= maxSize
                  /\ calls[c].result.file.contentType = e.fileData.mimetype
                  /\ calls[c].result.file.size = e.fileData.size
                  /\ calls[c].result.file.originalName = e.fileData.originalname
        /\ (calls[c].error # "findFirst"
              /\ \E f \in db : f.id = calls[c].id /\ f.userId = calls[c].userId)
           => calls[c].result.kind = "ok"

\* a get has returned the record of an upload of the largest size allowed
C2_Witness ==
    \E c \in Calls : Returned(c, "get") /\ calls[c].result.kind = "ok"
        /\ \E e \in pristine : e.id = calls[c].result.file.id /\ e.fileData.size = maxSize

\* ---------------------------------------------------------- steps of a call
\* the step that starts a call of `op` in slot c
Starts(c, op) == calls[c].pc = "idle" /\ calls'[c].op = op

\* the step that takes the call in slot c from the await `pc` to its return
ReturnsFrom(c, pc) == calls[c].pc = pc /\ calls'[c].pc = "done"

\* the id has been given out and its row is gone: only deleteFileById removes rows
Deleted(id) == id < nextId /\ ~Exists(db, id)

\* C3 (as stated): when an update returns successfully, the row's filename is the
\* newly generated one and differs from the one the row held before, exactly one
\* blob is at the new key, no blob is at the key the row held before, and the
\* row's size, contentType and signedUrl are those of the new content.
C3_AsStated ==
    [][\A c \in Calls :
        (ReturnsFrom(c, "u_sign") /\ calls'[c].result.kind = "ok") =>
            LET new == calls'[c]
                before == Row(db, new.id)
                after == Row(db', new.id)
            IN /\ Exists(db', new.id)
               /\ after.filename = new.filename
               /\ after.filename # before.filename
               /\ Cardinality(BlobsAt(blobs', after)) = 1
               /\ BlobsAt(blobs', before) = {}
               /\ after.size = new.fileData.size
               /\ after.contentType = new.fileData.mimetype
               /\ after.signedUrl = new.signedUrl
               /\ after.signedUrl.key = Key(after.userId, after.filename)
               /\ new.result.file = after]_vars

\* C3 (amended): when an update returns successfully, the row's filename is the
\* newly generated one and differs from the one the row held before, exactly one
\* blob is at the new key and it holds the new content, no blob is at the key the
\* call read at its existence check (the key the row held before, unless another
\* update of the same id wrote the row in between), and the row's size,
\* contentType and signedUrl are those of the new content.
C3_UpdateReplacesBlob ==
    [][\A c \in Calls :
        (ReturnsFrom(c, "u_sign") /\ calls'[c].result.kind = "ok") =>
            LET new == calls'[c]
                before == Row(db, new.id)
                after == Row(db', new.id)
            IN /\ Exists(db', new.id)
               /\ after.filename = new.filename
               /\ after.filename # before.filename
               /\ Cardinality(BlobsAt(blobs', after)) = 1
               /\ \A b \in BlobsAt(blobs', after) :
                     b.contentType = new.fileData.mimetype /\ b.size = new.fileData.size
               /\ BlobsAt(blobs', [before EXCEPT !.filename = new.file.filename]) = {}
               /\ (before.filename = new.file.filename => BlobsAt(blobs', before) = {})
               /\ after.size = new.fileData.size
               /\ after.contentType = new.fileData.mimetype
               /\ after.signedUrl = new.signedUrl
               /\ after.signedUrl.key = Key(after.userId, after.filename)
               /\ new.result.file = after]_vars

\* an update has returned successfully and changed the content type of the row
C3_Witness ==
    \E c \in Calls : Returned(c, "update") /\ calls[c].result.kind = "ok"
        /\ \E f \in db : f = calls[c].result.file /\ f.contentType = "image/jpeg"
                         /\ f.filename.ext = << >>

\* C4 (as stated): when a delete returns successfully, the row is gone and no blob
\* is at the key the row held; and every get of an id whose row a delete has
\* removed ends with NotFound (stated here for the gets whose lookup resolves: a
\* lookup that rejects is the subject of C14).
C4_AsStated ==
    [][/\ \A c \in Calls :
            (ReturnsFrom(c, "d_db") /\ calls'[c].result.kind = "ok") =>
                /\ ~Exists(db', calls'[c].id)
                /\ BlobsAt(blobs', Row(db, calls'[c].id)) = {}
       /\ \A c \in Calls :
            (Starts(c, "get") /\ Deleted(calls'[c].id) /\ calls'[c].error = "none") =>
                /\ calls'[c].pc = "done"
                /\ getFile(calls'[c].result) = ApiError(NOT_FOUND)]_vars

\* C4 (amended): when a delete returns successfully, the row is gone and no blob
\* is at the key the call read at its existence check (the key the row held, unless
\* an update of the same id wrote the row in between); a row that is gone never
\* exists again; and every get of that id started afterwards, by any user, returns
\* no record: it ends with NotFound, or with the database's own error when its
\* lookup rejects.
C4_DeleteIsFinal ==
    [][/\ \A c \in Calls :
            (ReturnsFrom(c, "d_db") /\ calls'[c].result.kind = "ok") =>
                LET before == Row(db, calls'[c].id)
                IN /\ ~Exists(db', calls'[c].id)
                   /\ BlobsAt(blobs', [before EXCEPT !.filename = calls'[c].file.filename]) = {}
                   /\ (before.filename = calls'[c].file.filename
                         => BlobsAt(blobs', before) = {})
       /\ \A id \in Ids : Deleted(id) => Deleted(id)'
       /\ \A c \in Calls :
            (Starts(c, "get") /\ Deleted(calls'[c].id)) =>
                /\ calls'[c].pc = "done"
                /\ IF calls'[c].error = "findFirst"
                   THEN calls'[c].result = RawError
                   ELSE getFile(calls'[c].result) = ApiError(NOT_FOUND)]_vars

\* after a delete removed the row, a get by its owner has ended with NotFound
C4_Witness ==
    \E c \in Calls : Returned(c, "get") /\ Deleted(calls[c].id)
        /\ calls[c].userId \in Uploaders
        /\ getFile(calls[c].result) = ApiError(NOT_FOUND)

\* the caller names a row that exists and belongs to another user
Foreign(call) == \E f \in db : f.id = call.id /\ f.userId # call.userId

\* what a call does once its lookup has resolved to `file`
Lookup(call, file) ==
    CASE call.op = "get" -> GetLookup(call, file)
      [] call.op = "update" -> UpdateLookup(call, file)
      [] call.op = "delete" -> DeleteLookup(call, file)

\* how the same call may end when it names an id that has no row at all
AbsentOutcomes(call) ==
    LET absent == [Idle EXCEPT !.op = call.op, !.id = AbsentId, !.userId = call.userId,
                               !.fileData = call.fileData]
    IN { Lookup(absent, findFirst(db, AbsentId, call.userId)),
         [absent EXCEPT !.pc = "done", !.error = "findFirst", !.result = RawError] }

\* C5: a get, update or delete that names a row of another user ends at once, as
\* the same call naming an id without a row may end: with NotFound (unless the
\* lookup itself rejects, which it may for either id), and with the table and the
\* storage unchanged.
C5_ForeignAsAbsent ==
    [][\A c \in Calls :
        (/\ \/ Starts(c, "get") \/ Starts(c, "update") \/ Starts(c, "delete")
         /\ Foreign(calls'[c])) =>
            /\ calls'[c].pc = "done"
            /\ [calls'[c] EXCEPT !.id = AbsentId] \in AbsentOutcomes(calls'[c])
            /\ calls'[c].error = "none" => getFile(calls'[c].result) = ApiError(NOT_FOUND)
            /\ UNCHANGED <<db, blobs, nextId, nextUuid>>]_vars

\* an update with a payload that would pass the checks, on a row of another user,
\* has ended with NotFound
C5_Witness ==
    \E c \in Calls : Returned(c, "update") /\ Foreign(calls[c])
        /\ Validate(calls[c].fileData) = NoResult
        /\ calls[c].result = ApiError(NOT_FOUND)

\* C6: an upload whose contentType is outside the allow-list ends at once with
\* the unsupported-media-type error, and creates no row and no blob.
C6_UnsupportedType ==
    [][\A c \in Calls :
        (Starts(c, "upload") /\ calls'[c].fileData.mimetype \notin allowedTypes) =>
            /\ calls'[c].pc = "done"
            /\ calls'[c].result = ApiError(UNSUPPORTED_MEDIA_TYPE)
            /\ UNCHANGED <<db, blobs, nextId>>]_vars

\* an upload of an unsupported type and of an allowed size has been refused
C6_Witness ==
    \E c \in Calls : Returned(c, "upload")
        /\ calls[c].fileData.mimetype \notin allowedTypes
        /\ calls[c].fileData.size <= maxSize
        /\ calls[c].result = ApiError(UNSUPPORTED_MEDIA_TYPE)

\* C7 (as stated): an upload whose size is above the maximum ends at once with
\* TooLarge and creates no row; a size equal to the maximum is not refused as too
\* large.
C7_AsStated ==
    [][\A c \in Calls : Starts(c, "upload") =>
        /\ calls'[c].fileData.size > maxSize =>
              /\ calls'[c].pc = "done"
              /\ calls'[c].result = ApiError(REQUEST_ENTITY_TOO_LARGE)
              /\ UNCHANGED <<db, nextId>>
        /\ calls'[c].fileData.size = maxSize =>
              calls'[c].result # ApiError(REQUEST_ENTITY_TOO_LARGE)]_vars

\* C7 (amended): an upload whose contentType is in the allow-list and whose size
\* is above the maximum ends at once with TooLarge and creates no row and no blob
\* (with a contentType outside the allow-list it ends with the unsupported-media-
\* type error instead); with an allowed contentType and a size equal to the maximum
\* it passes both checks and goes on to the storage write.
C7_TooLarge ==
    [][\A c \in Calls : Starts(c, "upload") =>
        /\ calls'[c].fileData.size > maxSize =>
              /\ calls'[c].pc = "done"
              /\ calls'[c].result =
                    IF calls'[c].fileData.mimetype \in allowedTypes
                    THEN ApiError(REQUEST_ENTITY_TOO_LARGE)
                    ELSE ApiError(UNSUPPORTED_MEDIA_TYPE)
              /\ UNCHANGED <<db, blobs, nextId>>
        /\ (calls'[c].fileData.size = maxSize
              /\ calls'[c].fileData.mimetype \in allowedTypes) =>
              /\ calls'[c].filename # NoFilename
              /\ calls'[c].pc = "up_sign" \/ calls'[c].error = "uploadData"]_vars

\* an upload of exactly the maximum size has written its blob, and an upload of an
\* allowed type above the maximum is being refused
C7_Witness ==
    /\ \E c \in Calls : calls[c].op = "upload" /\ calls[c].pc = "up_sign"
                        /\ calls[c].fileData.size = maxSize
    /\ \E c \in Calls : Returned(c, "upload") /\ calls[c].fileData.size = maxSize + 1
                        /\ calls[c].fileData.mimetype \in allowedTypes
                        /\ calls[c].result = ApiError(REQUEST_ENTITY_TOO_LARGE)

\* C8: an upload whose storage.uploadData rejected has returned the internal
\* error, and the table holds no row for the key it generated.
C8_StorageFailure ==
    \A c \in Calls : (calls[c].op = "upload" /\ calls[c].error = "uploadData") =>
        /\ calls[c].pc = "done"
        /\ calls[c].result = ApiError(INTERNAL_SERVER_ERROR)
        /\ \A f \in db : f.filename # calls[c].filename

\* an upload has ended on a rejected storage.uploadData, after it generated a key
C8_Witness ==
    \E c \in Calls : Returned(c, "upload") /\ calls[c].error = "uploadData"
        /\ calls[c].filename # NoFilename
        /\ calls[c].result = ApiError(INTERNAL_SERVER_ERROR)

\* C9: when the signing rejects in a get, the get returns successfully the file
\* as it read it, with the signedUrl it read, and the table is unchanged; a get
\* never ends with an internal error.
C9_GetSurvivesSigning ==
    [][\A c \in Calls :
        /\ (ReturnsFrom(c, "g_sign") /\ calls'[c].error = "generateDownloadSignedUrl") =>
              /\ calls'[c].result = Ok(calls[c].file)
              /\ calls'[c].result.file.signedUrl = calls[c].file.signedUrl
              /\ calls[c].file.id = calls[c].id /\ calls[c].file.userId = calls[c].userId
              /\ db' = db
        /\ (calls'[c].op = "get" /\ calls'[c].pc = "done") =>
              calls'[c].result.kind # "ApiError"]_vars

\* a get has returned the file it read after its signing rejected
C9_Witness ==
    \E c \in Calls : Returned(c, "get") /\ calls[c].error = "generateDownloadSignedUrl"
        /\ calls[c].result.kind = "ok" /\ calls[c].result.file.signedUrl # NoUrl

\* C10 (as stated): when the signing succeeds in a get, the new URL is written to
\* the row and the record returned carries the new URL.
C10_AsStated ==
    [][\A c \in Calls :
        (ReturnsFrom(c, "g_sign") /\ calls'[c].signedUrl # NoUrl) =>
            /\ Exists(db', calls'[c].id)
            /\ Row(db', calls'[c].id).signedUrl = calls'[c].signedUrl
            /\ calls'[c].result.kind = "ok"
            /\ calls'[c].result.file.signedUrl = calls'[c].signedUrl]_vars

\* C10 (amended): when the signing succeeds in a get and the database write that
\* follows succeeds, the new URL is written to the row, nothing else of the table
\* changes, and the record returned is the row as written, carrying the new URL;
\* when that write rejects (the database fails, or the row was deleted meanwhile)
\* nothing is written and the get returns the file as it read it, with the old URL.
C10_GetPersistsUrl ==
    [][\A c \in Calls :
        (ReturnsFrom(c, "g_sign") /\ calls'[c].signedUrl # NoUrl) =>
            IF calls'[c].error = "none"
            THEN /\ Exists(db', calls'[c].id)
                 /\ Row(db', calls'[c].id) = [Row(db, calls'[c].id) EXCEPT
                                                 !.signedUrl = calls'[c].signedUrl]
                 /\ \A f \in db : f.id # calls'[c].id => f \in db'
                 /\ calls'[c].result = Ok(Row(db', calls'[c].id))
                 /\ calls'[c].result.file.signedUrl = calls'[c].signedUrl
            ELSE /\ calls'[c].error = "update"
                 /\ db' = db
                 /\ calls'[c].result = Ok(calls[c].file)]_vars

\* a get has returned a record with a URL other than the one it read
C10_Witness ==
    \E c \in Calls : Returned(c, "get") /\ calls[c].error = "none"
        /\ calls[c].result.kind = "ok"
        /\ calls[c].result.file.signedUrl = calls[c].signedUrl
        /\ calls[c].signedUrl # calls[c].file.signedUrl
        /\ Row(db, calls[c].id).signedUrl = calls[c].signedUrl

\* C11: in every state, the signedUrl a row of the table stores was issued for the
\* key the row names now, files/<userId>/<filename>, and never for a key an update
\* has since replaced.
C11_SignedUrlForCurrentKey ==
    \A f \in db : f.signedUrl.key = Key(f.userId, f.filename)

\* a write call other than c is in progress on the id
OtherWriter(c, id) ==
    \E d \in Calls \ {c} :
        InProgress(d) /\ calls[d].id = id /\ calls[d].op \in {"update", "delete"}

Returns(c) == calls[c].pc # "done" /\ calls'[c].pc = "done"

\* C13: the step with which an upload, update or delete reports an error leaves
\* the table as it is, and so does every step with which no call returns: the
\* table changes only in the step with which a call returns success, so a call
\* that reports an error has written nothing to it.
C13_ErrorsWriteNothing ==
    [][/\ \A c \in Calls :
            (Returns(c) /\ calls'[c].op \in {"upload", "update", "delete"}
                /\ calls'[c].result.kind # "ok") => db' = db
       /\ db' # db =>
            \E c \in Calls :
                /\ Returns(c) /\ calls'[c].result.kind = "ok"
                /\ \A d \in Calls \ {c} : calls'[d] = calls[d]]_vars

\* an update has reported an internal error after it replaced the blob, and the
\* row still holds what its upload wrote
C13_Witness ==
    \E c \in Calls :
        /\ Returned(c, "update") /\ calls[c].result = ApiError(INTERNAL_SERVER_ERROR)
        /\ calls[c].error \in {"generateDownloadSignedUrl", "update"}
        /\ \E e \in pristine : e.id = calls[c].id /\ Exists(db, e.id)
        /\ \E b \in blobs : b.key.filename = calls[c].filename

\* C14: every call that has returned holds either a success value (a record, or
\* the null of a get that found nothing) or one ApiError: no rejection of the
\* database or of the storage crosses the service boundary as it is.
C14_TypedErrorsOnly ==
    \A c \in Calls : calls[c].pc = "done" =>
        /\ calls[c].result.kind \in {"ok", "null", "ApiError"}
        /\ calls[c].result.kind = "ApiError" =>
              calls[c].result.status \in {UNSUPPORTED_MEDIA_TYPE, REQUEST_ENTITY_TOO_LARGE,
                                          NOT_FOUND, INTERNAL_SERVER_ERROR}

\* C15: a row only comes to exist by an upload that returns success, under the id
\* the counter gives out next; it only ceases to exist by a delete of its id that
\* returns success; and once the row of an id is gone, no step of any call, started
\* later or already in progress, makes a row with that id exist again.
C15_NoResurrection ==
    [][\A id \in 1..AbsentId :
        /\ Deleted(id) => Deleted(id)'
        /\ (~Exists(db, id) /\ Exists(db', id)) =>
              /\ id = nextId /\ nextId' = nextId + 1
              /\ \E c \in Calls : /\ ReturnsFrom(c, "up_sign")
                                   /\ calls'[c].result = Ok(Row(db', id))
        /\ (Exists(db, id) /\ ~Exists(db', id)) =>
              \E c \in Calls : /\ ReturnsFrom(c, "d_db") /\ calls'[c].id = id
                                /\ calls'[c].result.kind = "ok"
        /\ (Exists(db, id) /\ Exists(db', id) /\ Row(db, id) # Row(db', id)) =>
              \E c \in Calls : /\ (ReturnsFrom(c, "u_sign") \/ ReturnsFrom(c, "g_sign"))
                                /\ calls'[c].id = id
                                /\ calls'[c].result = Ok(Row(db', id))]_vars

\* a get that had read the row before a delete removed it has tried to write its
\* URL afterwards, and the row is still gone
C15_Witness ==
    \E c \in Calls :
        /\ Returned(c, "get") /\ calls[c].error = "update"
        /\ calls[c].file.id = calls[c].id
        /\ Deleted(calls[c].id)

\* the call in slot c takes a step from the await `from` to `to`
Moves(c, from, to) == calls[c].pc = from /\ calls'[c].pc = to

\* C22: an update call passes its awaits in one order: the lookup, deleteFile on
\* the key it read at its existence check, uploadData under a key generated just
\* then, the signing of that new key, the database update. Each step starts only
\* from the success of the one before: a step that rejects ends the call with its
\* own effect undone and nothing of the later steps done, the bucket changes only
\* by the deletion of the old key and then by the upload at the new key, and the
\* table changes only in the last step, with a URL signed for the new key.
C22_UpdateOrder ==
    [][\A c \in Calls : (calls'[c].op = "update" /\ calls'[c] # calls[c]) =>
        LET old == calls[c]
            new == calls'[c]
        IN /\ \/ Moves(c, "idle", "u_del") \/ Moves(c, "idle", "done")
              \/ Moves(c, "u_del", "u_put") \/ Moves(c, "u_del", "done")
              \/ Moves(c, "u_put", "u_sign") \/ Moves(c, "u_put", "done")
              \/ Moves(c, "u_sign", "done")
           /\ old.pc = "idle" =>
                 /\ UNCHANGED <<db, blobs, nextUuid>>
                 /\ new.filename = NoFilename /\ new.signedUrl = NoUrl
                 /\ new.pc = "u_del" =>
                       \E f \in db : f.id = new.id /\ f.userId = new.userId
                                       /\ f.filename = new.file.filename
           /\ old.pc = "u_del" =>
                 /\ UNCHANGED <<db, nextUuid>>
                 /\ new.filename = NoFilename /\ new.signedUrl = NoUrl
                 /\ new.file = old.file
                 /\ IF new.pc = "u_put"
                    THEN /\ new.error = "none"
                         /\ blobs' = deleteFile(blobs, Key(old.userId, old.file.filename))
                    ELSE new.error = "deleteFile" /\ blobs' = blobs
           /\ old.pc = "u_put" =>
                 /\ db' = db
                 /\ new.filename = NewFilename(nextUuid, old.fileData.originalname)
                 /\ nextUuid' = nextUuid + 1
                 /\ new.filename # old.file.filename
                 /\ new.signedUrl = NoUrl
                 /\ IF new.pc = "u_sign"
                    THEN /\ new.error = "none"
                         /\ blobs' = uploadData(blobs, Key(old.userId, new.filename),
                                                old.fileData)
                         /\ \A b \in blobs : b.key # Key(old.userId, new.filename)
                    ELSE new.error = "uploadData" /\ blobs' = blobs
           /\ old.pc = "u_sign" =>
                 /\ UNCHANGED <<blobs, nextUuid>>
                 /\ new.filename = old.filename
                 /\ \E b \in blobs : b.key = Key(old.userId, old.filename)
                 /\ IF new.error = "generateDownloadSignedUrl"
                    THEN new.signedUrl = NoUrl /\ db' = db
                    ELSE /\ new.signedUrl.key = Key(old.userId, old.filename)
                         /\ IF new.error = "update"
                            THEN db' = db
                            ELSE /\ new.result.kind = "ok"
                                 /\ Row(db', new.id).filename = new.filename
                                 /\ Row(db', new.id).signedUrl = new.signedUrl]_vars

\* an update has passed all four steps: the blob of the key it read is gone, the
\* blob of the key it generated is there, and the row names that key with a URL
\* signed for it
C22_Witness ==
    \E c \in Calls :
        /\ Returned(c, "update") /\ calls[c].error = "none"
        /\ \A b \in blobs : b.key # Key(calls[c].userId, calls[c].file.filename)
        /\ \E b \in blobs : b.key = Key(calls[c].userId, calls[c].filename)
        /\ Row(db, calls[c].id).filename = calls[c].filename
        /\ Row(db, calls[c].id).signedUrl.key = Key(calls[c].userId, calls[c].filename)

\* the key the call in slot c read at its existence check
OldKey(c) == Key(calls[c].userId, calls[c].file.filename)

\* C23 (as stated): when the uploadData of an update rejects, after its deleteFile
\* succeeded, the update returns the internal error, the row is still there,
\* unchanged and naming the old key, and no blob is in storage for it.
C23_AsStated ==
    [][\A c \in Calls : ReturnsFrom(c, "u_put") =>
          /\ calls'[c].result = ApiError(INTERNAL_SERVER_ERROR)
          /\ db' = db
          /\ Exists(db', calls[c].id)
          /\ Row(db', calls[c].id).filename = calls[c].file.filename
          /\ BlobsAt(blobs', Row(db', calls[c].id)) = {}]_vars

\* C23 (amended): when the uploadData of an update rejects, after its deleteFile
\* succeeded, the update returns the internal error and its step changes neither
\* the table nor the bucket; no blob is at the key the call read at its existence
\* check; and unless an update or a delete of the same id has written the table
\* since that check, the row is still there, names that key, holds what it held
\* (what its upload wrote, when no update has replaced it) and has no blob in
\* storage.
C23_FailedReplaceLeavesNoBlob ==
    [][\A c \in Calls : ReturnsFrom(c, "u_put") =>
          /\ calls'[c].error = "uploadData"
          /\ calls'[c].result = ApiError(INTERNAL_SERVER_ERROR)
          /\ db' = db /\ blobs' = blobs
          /\ \A b \in blobs' : b.key # OldKey(c)
          /\ (Exists(db, calls[c].id)
                /\ Row(db, calls[c].id).filename = calls[c].file.filename) =>
                LET f == Row(db', calls[c].id)
                IN /\ f.userId = calls[c].userId
                   /\ BlobsAt(blobs', f) = {}
                   /\ \A e \in pristine' : e.id = f.id =>
                         /\ f.originalName = e.fileData.originalname
                         /\ f.contentType = e.fileData.mimetype
                         /\ f.size = e.fileData.size]_vars

\* an update has ended on a rejected uploadData: the row still holds what its
\* upload wrote and names the key the update deleted, and the bucket has no blob
\* for it
C23_Witness ==
    \E c \in Calls :
        /\ Returned(c, "update") /\ calls[c].error = "uploadData"
        /\ calls[c].result = ApiError(INTERNAL_SERVER_ERROR)
        /\ Exists(db, calls[c].id)
        /\ Row(db, calls[c].id).filename = calls[c].file.filename
        /\ \E e \in pristine : e.id = calls[c].id
        /\ BlobsAt(blobs, Row(db, calls[c].id)) = {}

\* the row of the id is there and has no blob, after a call that failed on it
Blobless(id) ==
    /\ id \in failedOn
    /\ Exists(db, id)
    /\ BlobsAt(blobs, Row(db, id)) = {}

\* C24: an update started by the owner on a row that a failed update has left
\* without a blob passes its existence check; its deleteFile of the key that is
\* not there can succeed, then changes nothing in the bucket, and the call goes on
\* to the upload; and when no step of the call has failed, it returns success with
\* the row naming the new key and exactly one blob for the row, at that key,
\* holding the new content.
C24_RetryAfterFailedReplace ==
    [][\A c \in Calls :
        /\ (/\ Starts(c, "update") /\ Blobless(calls'[c].id)
            /\ Row(db, calls'[c].id).userId = calls'[c].userId
            /\ ValidateUpdate(calls'[c].fileData) = NoResult
            /\ calls'[c].error = "none") =>
               /\ calls'[c].pc = "u_del"
               /\ calls'[c].file.filename = Row(db, calls'[c].id).filename
        /\ (calls[c].pc = "u_del" /\ Answered /\ \A b \in blobs : b.key # OldKey(c)) =>
               /\ ENABLED (updateFileById_deleteFile(c) /\ calls'[c].pc = "u_put")
               /\ Moves(c, "u_del", "u_put") => blobs' = blobs
        /\ (/\ ReturnsFrom(c, "u_sign") /\ calls[c].id \in failedOn
            /\ calls'[c].error = "none") =>
               LET f == Row(db', calls[c].id)
               IN /\ calls'[c].result = Ok(f)
                  /\ f.filename = calls[c].filename
                  /\ Cardinality(BlobsAt(blobs', f)) = 1
                  /\ \A b \in BlobsAt(blobs', f) :
                        /\ b.contentType = calls[c].fileData.mimetype
                        /\ b.size = calls[c].fileData.size
                  /\ \A b \in blobs' : b.key # OldKey(c)]_vars

\* after an update of the row has drawn a key and failed, leaving nothing in the
\* bucket, the next update has returned success: the one blob in the bucket is the
\* row's, at the key this call generated
C24_Witness ==
    \E c \in Calls :
        /\ Returned(c, "update") /\ calls[c].result.kind = "ok"
        /\ calls[c].id \in failedOn
        /\ calls[c].file.filename.uuid + 2 = calls[c].filename.uuid
        /\ \A d \in Calls \ {c} : calls[d] = Idle
        /\ blobs = BlobsAt(blobs, Row(db, calls[c].id))
        /\ Cardinality(blobs) = 1

\* C25: a delete call passes its awaits in one order: the lookup, deleteFile on
\* the key it read, the deletion of the row. The row's deletion is attempted only
\* from the success of deleteFile: when deleteFile rejects, the call ends there
\* with the internal error, having changed neither the bucket nor the table, so
\* the row that was there is still there; and the step that removes the row finds
\* no blob at the key the call read.
C25_DeleteOrder ==
    [][\A c \in Calls : (calls'[c].op = "delete" /\ calls'[c] # calls[c]) =>
        LET old == calls[c]
            new == calls'[c]
        IN /\ \/ Moves(c, "idle", "d_del") \/ Moves(c, "idle", "done")
              \/ Moves(c, "d_del", "d_db") \/ Moves(c, "d_del", "done")
              \/ Moves(c, "d_db", "done")
           /\ old.pc = "idle" => UNCHANGED <<db, blobs>>
           /\ old.pc = "d_del" =>
                 /\ db' = db
                 /\ IF new.pc = "d_db"
                    THEN /\ new.error = "none"
                         /\ blobs' = deleteFile(blobs, OldKey(c))
                    ELSE /\ new.error = "deleteFile"
                         /\ new.result = ApiError(INTERNAL_SERVER_ERROR)
                         /\ blobs' = blobs
                         /\ Exists(db, old.id) =>
                               Exists(db', old.id) /\ Row(db', old.id) = Row(db, old.id)
           /\ old.pc = "d_db" =>
                 /\ blobs' = blobs
                 /\ \A b \in blobs : b.key # OldKey(c)
                 /\ db' # db => /\ new.result.kind = "ok"
                                /\ db' = db \ {Row(db, old.id)}]_vars

\* a delete has ended on a rejected deleteFile: the row and its blob are there
C25_Witness ==
    \E c \in Calls :
        /\ Returned(c, "delete") /\ calls[c].error = "deleteFile"
        /\ calls[c].result = ApiError(INTERNAL_SERVER_ERROR)
        /\ Exists(db, calls[c].id)
        /\ Row(db, calls[c].id).filename = calls[c].file.filename
        /\ Cardinality(BlobsAt(blobs, Row(db, calls[c].id))) = 1

\* the step with which the call in slot c ends on a rejected storage or database
\* call of its try block
Fails(c) ==
    /\ Returns(c) /\ calls'[c].op \in {"upload", "update", "delete"}
    /\ calls'[c].error \notin {"none", "findFirst"}

\* what the steps of a call that succeeded before it failed have left: the blob
\* an upload or an update wrote is there, the blob an update or a delete removed
\* is not
EffectsStay(c) ==
    LET new == calls'[c]
    IN /\ new.error \in {"generateDownloadSignedUrl", "create", "update"} =>
             /\ \E b \in blobs' : /\ b.key = Key(new.userId, new.filename)
                                   /\ b.contentType = new.fileData.mimetype
                                   /\ b.size = new.fileData.size
             /\ \A f \in db' : f.filename # new.filename
       /\ (new.op = "update" /\ new.error # "deleteFile") =>
             \A b \in blobs' : b.key # OldKey(c)
       /\ (new.op = "delete" /\ new.error = "delete") =>
             \A b \in blobs' : b.key # OldKey(c)

\* C26 (as stated): the step with which an upload, update or delete ends on a
\* rejected storage or database call of its try block changes neither the bucket
\* nor the table and returns the internal error, the call does nothing after it,
\* and what its earlier steps did stays; an upload that fails after its blob write
\* leaves the blob with no row, and a delete whose row deletion fails leaves the row
\* with no blob.
C26_AsStated ==
    [][\A c \in Calls :
        /\ calls'[c].error # "none" => calls'[c].pc = "done"
        /\ Fails(c) =>
              /\ UNCHANGED <<db, blobs>>
              /\ calls'[c].result = ApiError(INTERNAL_SERVER_ERROR)
              /\ EffectsStay(c)
              /\ (calls'[c].op = "delete" /\ calls'[c].error = "delete") =>
                    /\ Exists(db', calls[c].id)
                    /\ BlobsAt(blobs', Row(db', calls[c].id)) = {}]_vars

\* C26 (amended): the step with which an upload, update or delete ends on a
\* rejected storage or database call of its try block changes neither the bucket
\* nor the table and returns the internal error, the call does nothing after it,
\* and what its earlier steps did stays; an upload that fails after its blob write
\* leaves the blob with no row; a delete whose row deletion fails leaves no blob at
\* the key it read, and the row, when it is still there and still names that key
\* (no delete or update of the id has written it since the call's existence check),
\* is left with no blob.
C26_NoRollback ==
    [][\A c \in Calls :
        /\ calls'[c].error # "none" => calls'[c].pc = "done"
        /\ Fails(c) =>
              /\ UNCHANGED <<db, blobs>>
              /\ calls'[c].result = ApiError(INTERNAL_SERVER_ERROR)
              /\ EffectsStay(c)
              /\ (/\ calls'[c].op = "delete" /\ calls'[c].error = "delete"
                  /\ Exists(db, calls[c].id)
                  /\ Row(db, calls[c].id).filename = calls[c].file.filename) =>
                    /\ Exists(db', calls[c].id)
                    /\ BlobsAt(blobs', Row(db', calls[c].id)) = {}]_vars

\* an upload has ended on a rejected prisma.file.create: its blob is in the bucket
\* and no row names it
C26_Witness ==
    \E c \in Calls :
        /\ Returned(c, "upload") /\ calls[c].error = "create"
        /\ calls[c].result = ApiError(INTERNAL_SERVER_ERROR)
        /\ \E b \in blobs : b.key = Key(calls[c].userId, calls[c].filename)
        /\ \A f \in db : f.filename # calls[c].filename

\* the content types of either allow-list and one of neither, and sizes up to,
\* at and above either limit
SomeTypes == allowedTypes \cup allowedTypesOfUpdate \cup {"application/exe", ""}
SomeSizes == {0, 1024, maxSize - 1, maxSize, maxSize + 1,
              maxSizeOfUpdate - 1, maxSizeOfUpdate, maxSizeOfUpdate + 1}

\* C27: uploadFile and updateFileById decide alike on every content type and size:
\* both accept it, or both refuse it with the same error. An update that finds the
\* row of its caller and whose payload uploadFile would refuse ends at once with the
\* error uploadFile gives for that payload, with the table and the bucket unchanged
\* and no key drawn, so that the row and its blob are as they were; with a payload
\* uploadFile would accept it goes on to its storage calls.
C27_SameValidation ==
    [][/\ \A type \in SomeTypes, size \in SomeSizes :
            ValidateUpdate([NoData EXCEPT !.mimetype = type, !.size = size])
                = Validate([NoData EXCEPT !.mimetype = type, !.size = size])
       /\ \A c \in Calls :
            (/\ Starts(c, "update") /\ calls'[c].error = "none"
             /\ \E f \in db : f.id = calls'[c].id /\ f.userId = calls'[c].userId) =>
                IF Validate(calls'[c].fileData) # NoResult
                THEN /\ calls'[c].pc = "done"
                     /\ calls'[c].result = Validate(calls'[c].fileData)
                     /\ calls'[c].result.status
                           \in {UNSUPPORTED_MEDIA_TYPE, REQUEST_ENTITY_TOO_LARGE}
                     /\ UNCHANGED <<db, blobs, nextUuid, nextId>>
                ELSE calls'[c].pc = "u_del" /\ UNCHANGED <<db, blobs>>]_vars

\* an update of an allowed type above the maximum size, on a row of its caller, has
\* been refused as too large, and the row still has its blob
C27_Witness ==
    \E c \in Calls :
        /\ Returned(c, "update")
        /\ calls[c].result = ApiError(REQUEST_ENTITY_TOO_LARGE)
        /\ calls[c].fileData.mimetype \in allowedTypes
        /\ \E f \in db : /\ f.id = calls[c].id /\ f.userId = calls[c].userId
                          /\ f.filename = calls[c].file.filename
                          /\ Cardinality(BlobsAt(blobs, f)) = 1

\* ---------------------------------------------------------- queryUserFiles
MaxRows == 14      \* rows of the largest table a list is asked of
MaxPage == 3       \* pages a caller asks for
MaxLimit == 3      \* page sizes a caller asks for

SortFields == {"uploadedAt", "originalName", "size", "contentType"}
SortTypes == {"asc", "desc"}

\* An options object holds the keys the caller gave; a key left out reads as
\* undefined. Each argument below is the empty set (left out) or one value.
Field(name, given) == IF given = {} THEN << >> ELSE name :> (CHOOSE v \in given : TRUE)

Given(values) == {{}} \cup {{v} : v \in values}

Options ==
    { Field("page", p) @@ Field("limit", l) @@ Field("sortBy", sb) @@ Field("sortType", st) :
        p \in Given(1..MaxPage), l \in Given(1..MaxLimit),
        sb \in Given(SortFields), st \in Given(SortTypes) }

\* options.key ?? fallback
Nullish(options, key, fallback) ==
    IF key \in DOMAIN options THEN options[key] ELSE fallback

\* options.key || fallback
Falsy(options, key, fallback) ==
    IF key \in DOMAIN options /\ options[key] # "" THEN options[key] ELSE fallback

\* the rows a list is asked of: row i of n; every sixth belongs to the second user,
\* upload times do not follow the ids, sizes, names and types repeat
ListRow(i) ==
    [id |-> i,
     filename |-> [uuid |-> i, ext |-> << >>],
     originalName |-> <<(<<"a", "b", "c">>)[(i % 3) + 1]>> \o (IF i % 2 = 0 THEN <<".", "p">> ELSE << >>),
     contentType |-> (<<"application/pdf", "image/png", "text/plain">>)[(i % 3) + 1],
     size |-> 1024 * ((i % 4) + 1),
     signedUrl |-> NoUrl,
     userId |-> IF i % 6 = 0 THEN 2 ELSE 1,
     uploadedAt |-> (i * 7) % 17]

Tables == { {ListRow(i) : i \in 1..n} : n \in {0, 4, MaxRows} }

\* the order of the characters of a name, and of the content types, in the database
Alphabet == <<".", "a", "b", "c", "p", "x">>
CharRank(ch) == CHOOSE i \in 1..Len(Alphabet) : Alphabet[i] = ch

TypeOrder ==
    << "application/msword",
       "application/pdf",
       "application/vnd.openxmlformats-officedocument.wordprocessingml.document",
       "image/gif", "image/jpeg", "image/jpg", "image/png", "text/plain" >>
TypeRank(type) == CHOOSE i \in 1..Len(TypeOrder) : TypeOrder[i] = type

RECURSIVE LessSeq(_, _)
LessSeq(s, t) ==
    IF t = << >> THEN FALSE
    ELSE IF s = << >> THEN TRUE
    ELSE IF Head(s) # Head(t) THEN CharRank(Head(s)) < CharRank(Head(t))
    ELSE LessSeq(Tail(s), Tail(t))

\* f comes strictly before g when ordered by the field, ascending
Precedes(f, g, sortBy) ==
    CASE sortBy = "uploadedAt" -> f.uploadedAt < g.uploadedAt
      [] sortBy = "size" -> f.size < g.size
      [] sortBy = "contentType" -> TypeRank(f.contentType) < TypeRank(g.contentType)
      [] sortBy = "originalName" -> LessSeq(f.originalName, g.originalName)

\* orderBy: { [sortBy]: sortType }; rows that agree on the field come in an order
\* the database chooses (here: by id, upwards or downwards)
Before(f, g, orderBy, tie) ==
    LET lt == IF orderBy.sortType = "asc" THEN Precedes(f, g, orderBy.sortBy)
                                          ELSE Precedes(g, f, orderBy.sortBy)
        gt == IF orderBy.sortType = "asc" THEN Precedes(g, f, orderBy.sortBy)
                                          ELSE Precedes(f, g, orderBy.sortBy)
    IN lt \/ (~gt /\ IF tie = "asc" THEN f.id < g.id ELSE f.id > g.id)

RECURSIVE Ordered(_, _, _)
Ordered(rows, orderBy, tie) ==
    IF rows = {} THEN << >>
    ELSE LET first == CHOOSE f \in rows : \A g \in rows \ {f} : Before(f, g, orderBy, tie)
         IN <<first>> \o Ordered(rows \ {first}, orderBy, tie)

\* prisma.file.findMany({ where, skip, take, orderBy })
findMany(table, args, tie) ==
    LET all == Ordered({f \in table : f.userId = args.where.userId}, args.orderBy, tie)
        last == IF args.skip + args.take < Len(all) THEN args.skip + args.take ELSE Len(all)
    IN SubSeq(all, args.skip + 1, last)

\* a slip: the offset of the page after the one asked for
FindManyArgs_NextPage(userId, options) ==
    LET page == Nullish(options, "page", 1)
        limit == Nullish(options, "limit", 10)
    IN [where |-> [userId |-> userId],
        skip |-> page * limit,
        take |-> limit,
        orderBy |-> [sortBy |-> Falsy(options, "sortBy", "uploadedAt"),
                     sortType |-> Nullish(options, "sortType", "desc")]]

\* the argument queryUserFiles hands to findMany
FindManyArgs(userId, options) ==
    LET page == Nullish(options, "page", 1)
        limit == Nullish(options, "limit", 10)
        sortBy == Falsy(options, "sortBy", "uploadedAt")
        sortType == Nullish(options, "sortType", "desc")
    IN [where |-> [userId |-> userId],
        skip |-> (page - 1) * limit,
        take |-> limit,
        orderBy |-> [sortBy |-> sortBy, sortType |-> sortType]]

\* queryUserFiles: the awaited prisma.file.findMany, whose rows it returns and
\* whose rejection it lets through
queryUserFiles(userId, options) ==
    /\ query.pc = "idle"
    /\ \/ \E tie \in SortTypes :
             query' = [pc |-> "done", userId |-> userId, options |-> options,
                       files |-> findMany(db, FindManyArgs(userId, options), tie),
                       error |-> "none"]
       \/ query' = [pc |-> "done", userId |-> userId, options |-> options,
                     files |-> << >>, error |-> "findMany"]
    /\ UNCHANGED <<db, blobs, calls, nextId, nextUuid, pristine, failedOn>>
    /\ UNCHANGED <<uploadState, mutation, requests, cancelled, authData, login, logout, pager>>

\* the controller's getFiles has sent the response
getFiles ==
    /\ query.pc = "done"
    /\ query' = IdleQuery
    /\ UNCHANGED <<db, blobs, calls, nextId, nextUuid, pristine, failedOn>>
    /\ UNCHANGED <<uploadState, mutation, requests, cancelled, authData, login, logout, pager>>

\* a table with rows of two users, as uploads at different times have left it
ListInit ==
    /\ db \in Tables
    /\ blobs = {}
    /\ calls = [c \in Calls |-> Idle]
    /\ nextId = MaxRows + 1
    /\ nextUuid = MaxRows + 1
    /\ pristine = {}
    /\ failedOn = {}
    /\ query = IdleQuery
    /\ uploadState = InitialUploadState
    /\ mutation = IdleMutation
    /\ requests = {}
    /\ cancelled = FALSE
    /\ authData = null
    /\ login = IdleLogin
    /\ logout = IdleLogout
    /\ pager = IdlePager

ListNext ==
    \/ \E userId \in Users, options \in Options : queryUserFiles(userId, options)
    \/ getFiles

ListSpec == ListInit /\ [][ListNext]_vars

\* C16: a list that has returned holds, of the rows of the caller ordered by the
\* sort field in the given direction, exactly those at offsets (page-1)*limit up to
\* page*limit-1: every row is the caller's, no row comes twice, there are at most
\* limit of them and as many as the caller has at those offsets, each stands at its
\* offset of the order, and they come in that order; an option left out counts as
\* page 1, limit 10, uploadedAt, descending.
C16_ListPage ==
    (query.pc = "done" /\ query.error = "none") =>
        LET o == query.options
            page == IF "page" \in DOMAIN o THEN o.page ELSE 1
            limit == IF "limit" \in DOMAIN o THEN o.limit ELSE 10
            sortField == IF "sortBy" \in DOMAIN o THEN o.sortBy ELSE "uploadedAt"
            direction == IF "sortType" \in DOMAIN o THEN o.sortType ELSE "desc"
            mine == {f \in db : f.userId = query.userId}
            r == query.files
            first == (page - 1) * limit
            left == Cardinality(mine) - first
            Ahead(f, g) == IF direction = "asc" THEN Precedes(f, g, sortField)
                                                ELSE Precedes(g, f, sortField)
        IN /\ \A i \in 1..Len(r) : r[i] \in mine
           /\ \A i, j \in 1..Len(r) : i # j => r[i] # r[j]
           /\ Len(r) <= limit
           /\ Len(r) = IF left <= 0 THEN 0 ELSE IF left < limit THEN left ELSE limit
           /\ \A i \in 1..Len(r) :
                 /\ Cardinality({g \in mine : Ahead(g, r[i])}) <= first + i - 1
                 /\ first + i - 1 < Cardinality({g \in mine : ~Ahead(r[i], g)})
           /\ \A i, j \in 1..Len(r) : i < j => ~Ahead(r[j], r[i])

\* a list with no options has returned the ten newest of more than ten rows
C16_Witness ==
    /\ query.pc = "done" /\ query.error = "none"
    /\ DOMAIN query.options = {}
    /\ Cardinality({f \in db : f.userId = query.userId}) > 10
    /\ Len(query.files) = 10
    /\ \A f \in db : f.userId = query.userId => f.uploadedAt <= query.files[1].uploadedAt

\* ------------------------------------------------------- page after page
\* the ids of the rows of a page
RECURSIVE IdsOf(_)
IdsOf(files) == IF files = << >> THEN << >> ELSE <<Head(files).id>> \o IdsOf(Tail(files))

\* a client starts asking for the pages of a list, with the options it will give
\* with every page
startPaging(userId, options) ==
    /\ pager.pc = "idle" /\ query.pc = "idle"
    /\ "page" \notin DOMAIN options
    /\ pager' = [pc |-> "paging", userId |-> userId, options |-> options,
                 page |-> 0, seen |-> << >>]
    /\ UNCHANGED <<db, blobs, calls, nextId, nextUuid, pristine, failedOn, query>>
    /\ UNCHANGED <<uploadState, mutation, requests, cancelled, authData, login, logout>>

\* the client asks for the page after the last it received
requestPage ==
    /\ pager.pc = "paging"
    /\ pager.page < MaxPage
    /\ queryUserFiles(pager.userId, Field("page", {pager.page + 1}) @@ pager.options)

\* the response of getFiles reaches the client, which keeps the rows of the page;
\* after an error it gives up
receivePage ==
    /\ pager.pc = "paging"
    /\ query.pc = "done"
    /\ query' = IdleQuery
    /\ pager' = IF query.error = "none"
                THEN [pager EXCEPT !.page = pager.page + 1,
                                   !.seen = pager.seen \o IdsOf(query.files)]
                ELSE IdlePager
    /\ UNCHANGED <<db, blobs, calls, nextId, nextUuid, pristine, failedOn>>
    /\ UNCHANGED <<uploadState, mutation, requests, cancelled, authData, login, logout>>

\* the client has the pages it wanted
stopPaging ==
    /\ pager.pc = "paging" /\ query.pc = "idle"
    /\ pager' = IdlePager
    /\ UNCHANGED <<db, blobs, calls, nextId, nextUuid, pristine, failedOn, query>>
    /\ UNCHANGED <<uploadState, mutation, requests, cancelled, authData, login, logout>>

\* requests for successive pages of a table that does not change
PageNext ==
    \/ \E userId \in Users, options \in Options : startPaging(userId, options)
    \/ requestPage
    \/ receivePage
    \/ stopPaging

PageSpec == ListInit /\ [][PageNext]_vars

\* C29: over a table that does not change, the pages 1, 2, 3, ... a client has
\* received with one limit, sort field and direction hold no row twice, and once
\* they reach past the last row of the caller they hold every row of the caller.
C29_EveryRecordOnce ==
    pager.pc = "paging" =>
        LET limit == IF "limit" \in DOMAIN pager.options THEN pager.options.limit ELSE 10
            mine == {f.id : f \in {g \in db : g.userId = pager.userId}}
        IN /\ \A i, j \in 1..Len(pager.seen) : i # j => pager.seen[i] # pager.seen[j]
           /\ pager.page * limit >= Cardinality(mine) =>
                 {pager.seen[i] : i \in 1..Len(pager.seen)} = mine

\* ----------------------------------------------- useFileUpload, FileUploadPage
MaxRequests == 2   \* uploads the browser has in flight at the same time

\* what the hook and the page leave alone
backend == <<db, blobs, calls, nextId, nextUuid, pristine, failedOn, query>>

\* the File objects a user may select (by name), and the progress values the
\* request reports
Files == {"a.png", "b.pdf"}
Progresses == {0, 50, 100}

\* what a request rejects with: an Error carrying a message, or another value
Rejections == {[isError |-> TRUE, message |-> "Network Error"],
               [isError |-> FALSE, message |-> ""]}

NoRejection == [isError |-> FALSE, message |-> null]

\* the FileUploadResponse of an upload of the file
Response(file) == [filename |-> file]

\* uploadState.status === 'uploading'
isUploading == uploadState.status = "uploading"

\* A promise that has settled runs its callback before anything else happens: no
\* event falls between the two.
Settled == \A r \in requests : r.outcome = "pending"

Room == Cardinality(requests) < MaxRequests

\* uploadMutation.mutate(file): onMutate sets the state, then mutationFn sends the
\* request
mutate(file) ==
    /\ Room
    /\ LET n == CHOOSE k \in 1..MaxRequests : \A r \in requests : r.n # k
       IN /\ requests' = requests \cup
                 {[n |-> n, file |-> file, outcome |-> "pending", rejection |-> NoRejection]}
          /\ mutation' = [status |-> "pending", n |-> n]
    /\ uploadState' = [uploadState EXCEPT !.status = "uploading", !.progress = 0,
                                          !.file = file, !.result = NoResponse,
                                          !.error = null]

selectFile(file) ==
    /\ Settled /\ Room
    /\ uploadState' = [uploadState EXCEPT !.file = file, !.status = "idle",
                                          !.progress = 0, !.result = NoResponse,
                                          !.error = null]
    /\ cancelled' = FALSE
    /\ UNCHANGED <<mutation, requests, backend, authData, login, logout, pager>>

\* startUpload: with a file selected it starts the mutation
startUpload ==
    /\ Settled
    /\ uploadState.file # null
    /\ mutate(uploadState.file)
    /\ cancelled' = FALSE
    /\ UNCHANGED <<backend, authData, login, logout, pager>>

\* retry: the same as startUpload
retry ==
    /\ Settled
    /\ uploadState.file # null
    /\ mutate(uploadState.file)
    /\ cancelled' = FALSE
    /\ UNCHANGED <<backend, authData, login, logout, pager>>

reset ==
    /\ Settled
    /\ uploadState' = InitialUploadState
    /\ mutation' = IdleMutation
    /\ cancelled' = FALSE
    /\ UNCHANGED <<requests, backend, authData, login, logout, pager>>

\* cancel: the state goes back to idle and the observer is reset; the request is
\* not aborted
cancel ==
    /\ Settled /\ Room
    /\ uploadState' = [uploadState EXCEPT !.status = "idle", !.progress = 0]
    /\ mutation' = IdleMutation
    /\ cancelled' = (isUploading \/ cancelled)
    /\ UNCHANGED <<requests, backend, authData, login, logout, pager>>

\* a slip: the effect starts the upload only while the mutation is idle
AutoUploadEffect_Once ==
    /\ Settled
    /\ uploadState.file # null /\ uploadState.status = "idle"
    /\ mutation.status = "idle"
    /\ mutate(uploadState.file)
    /\ UNCHANGED <<cancelled, backend, authData, login, logout, pager>>

\* FileUploadPage's effect: with a file and status idle it calls startUpload
AutoUploadEffect ==
    /\ Settled
    /\ uploadState.file # null /\ uploadState.status = "idle"
    /\ mutate(uploadState.file)
    /\ UNCHANGED <<cancelled, backend, authData, login, logout, pager>>

\* the progress callback of a request in flight
onProgress(r, progress) ==
    /\ Settled
    /\ r \in requests
    /\ uploadState' = [uploadState EXCEPT !.progress = progress]
    /\ UNCHANGED <<mutation, requests, cancelled, backend, authData, login, logout, pager>>

\* the request's promise resolves or rejects
Settle(r, outcome, rejection) ==
    /\ Settled
    /\ r \in requests
    /\ requests' = (requests \ {r}) \cup
            {[r EXCEPT !.outcome = outcome,
                       !.rejection = IF outcome = "rejected" THEN rejection ELSE NoRejection]}
    /\ UNCHANGED <<uploadState, mutation, cancelled, backend, authData, login, logout, pager>>

\* a slip: the result of an earlier upload is kept
onError_KeepsResult(r) ==
    /\ r \in requests /\ r.outcome = "rejected"
    /\ requests' = requests \ {r}
    /\ uploadState' = [uploadState EXCEPT
            !.status = "error", !.progress = 0,
            !.error = IF r.rejection.isError THEN r.rejection.message ELSE "Upload failed"]
    /\ mutation' = IF mutation.n = r.n THEN [mutation EXCEPT !.status = "error"] ELSE mutation
    /\ UNCHANGED <<cancelled, backend, authData, login, logout, pager>>

\* onSuccess: the callback of a request that resolved; the mutation calls it
\* whether or not the observer still follows it
onSuccess(r) ==
    /\ r \in requests /\ r.outcome = "resolved"
    /\ requests' = requests \ {r}
    /\ uploadState' = [uploadState EXCEPT
            !.status = "success", !.progress = 100,
            !.result = Response(r.file), !.error = null]
    /\ mutation' = IF mutation.n = r.n THEN [mutation EXCEPT !.status = "success"] ELSE mutation
    /\ UNCHANGED <<cancelled, backend, authData, login, logout, pager>>

\* onError: the callback of a request that rejected
onError(r) ==
    /\ r \in requests /\ r.outcome = "rejected"
    /\ requests' = requests \ {r}
    /\ uploadState' = [uploadState EXCEPT
            !.status = "error", !.progress = 0, !.result = NoResponse,
            !.error = IF r.rejection.isError THEN r.rejection.message ELSE "Upload failed"]
    /\ mutation' = IF mutation.n = r.n THEN [mutation EXCEPT !.status = "error"] ELSE mutation
    /\ UNCHANGED <<cancelled, backend, authData, login, logout, pager>>

HookNext ==
    \/ \E file \in Files : selectFile(file)
    \/ startUpload
    \/ retry
    \/ reset
    \/ cancel
    \/ AutoUploadEffect
    \/ \E r \in requests, progress \in Progresses : onProgress(r, progress)
    \/ \E r \in requests, rejection \in Rejections : Settle(r, "rejected", rejection)
    \/ \E r \in requests : Settle(r, "resolved", NoRejection)
    \/ \E r \in requests : onSuccess(r)
    \/ \E r \in requests : onError(r)

HookSpec == Init /\ [][HookNext]_vars

\* the requests whose callback runs in this step
Completed == {r \in requests : \A q \in requests' : q.n # r.n}

\* the state object of the hook is consistent with its status
UploadStateConsistent ==
    /\ uploadState.status \in {"idle", "uploading", "success", "error"}
    /\ uploadState.status = "success" =>
          uploadState.result # NoResponse /\ uploadState.error = null
    /\ uploadState.status = "error" =>
          uploadState.error # null /\ uploadState.result = NoResponse
    /\ uploadState.status = "uploading" =>
          /\ uploadState.file # null
          /\ uploadState.result = NoResponse /\ uploadState.error = null
    /\ isUploading <=> uploadState.status = "uploading"

\* C17: every state the hook reaches is consistent with its status (success: a
\* result and no error; error: an error and no result; uploading: a file, no result
\* and no error; isUploading exactly when uploading), and the callback of a request
\* that resolved leaves status success with progress 100 and the response as the
\* result, that of a request that rejected status error with progress 0.
C17_HookStates ==
    [][/\ UploadStateConsistent'
       /\ \A r \in Completed :
            IF r.outcome = "resolved"
            THEN /\ uploadState'.status = "success" /\ uploadState'.progress = 100
                 /\ uploadState'.result = Response(r.file)
            ELSE /\ uploadState'.status = "error" /\ uploadState'.progress = 0
                 /\ uploadState'.error \in {r.rejection.message, "Upload failed"}]_vars

\* a request has rejected while the result of an earlier one was shown: the state
\* is error, with the message and without the result
C17_Witness ==
    /\ uploadState.status = "error" /\ uploadState.progress = 0
    /\ uploadState.error = "Network Error" /\ uploadState.result = NoResponse
    /\ mutation.status = "success"

\* C18: from a cancel invoked during an upload until the user selects a file or
\* calls startUpload, retry or reset, the state is idle with progress 0: neither
\* the completion or the progress of the cancelled request nor the page's
\* auto-upload effect moves it.
C18_CancelStaysIdle ==
    cancelled => (uploadState.status = "idle" /\ uploadState.progress = 0)

beyond == <<db, blobs, calls, nextId, nextUuid, pristine, failedOn, query,
            uploadState, mutation, requests, cancelled, logout, pager>>

Credentials == {"valid", "invalid"}

\* the built-in response, and what the server answers a login with
mockAuthResponse == "mockAuthResponse"
ServerResponses == {"authResponse1", "authResponse2"}

\* What api.post rejects with. An error that carries a response has the code of
\* its status class; one without a response is a network error or a timeout.
ApiErrors ==
    {[response |-> TRUE, status |-> st, code |-> "ERR_BAD_REQUEST"] :
        st \in {400, 401, 403, 404, 422, 429, 499}}
    \cup {[response |-> TRUE, status |-> st, code |-> "ERR_BAD_RESPONSE"] :
        st \in {500, 502, 503, 504}}
    \cup {[response |-> FALSE, status |-> 0, code |-> code] :
        code \in {"ERR_NETWORK", "NETWORK_ERROR", "ECONNABORTED"}}

\* a slip: every error status falls back to the mock response
Fallback_AnyStatus(error) ==
    (error.response /\ error.status >= 400) \/ error.code = "NETWORK_ERROR" \/ ~error.response

\* error.response?.status >= 500 || error.code === 'NETWORK_ERROR' || !error.response
Fallback(error) ==
    (error.response /\ error.status >= 500) \/ error.code = "NETWORK_ERROR" \/ ~error.response

\* setAuthData(data): the browser stores the response
setAuthData(data) == authData' = data

\* login is called: in mock mode it waits for mockApiDelay, otherwise for api.post
login_call(credentials, mock) ==
    /\ login.pc = "idle"
    /\ login' = [IdleLogin EXCEPT !.pc = IF mock THEN "mockApiDelay" ELSE "post",
                                  !.credentials = credentials, !.mock = mock]
    /\ UNCHANGED <<authData, beyond>>

\* mock mode: the built-in response is returned and nothing is stored
login_mock ==
    /\ login.pc = "mockApiDelay"
    /\ login' = [login EXCEPT !.pc = "done", !.outcome = "resolved",
                              !.result = mockAuthResponse]
    /\ UNCHANGED <<authData, beyond>>

\* api.post resolves: the response is stored and returned
login_resolves(data) ==
    /\ login.pc = "post"
    /\ setAuthData(data)
    /\ login' = [login EXCEPT !.pc = "done", !.outcome = "resolved", !.result = data]
    /\ UNCHANGED beyond

\* api.post rejects: the catch block falls back to the mock response or rethrows
login_rejects(error) ==
    /\ login.pc = "post"
    /\ login' = IF Fallback(error)
                THEN [login EXCEPT !.pc = "fallback", !.error = error]
                ELSE [login EXCEPT !.pc = "done", !.error = error, !.outcome = "rejected"]
    /\ UNCHANGED <<authData, beyond>>

\* after mockApiDelay the mock response is stored and returned
login_fallback ==
    /\ login.pc = "fallback"
    /\ setAuthData(mockAuthResponse)
    /\ login' = [login EXCEPT !.pc = "done", !.outcome = "resolved",
                              !.result = mockAuthResponse]
    /\ UNCHANGED beyond

\* the caller has the result
login_settled ==
    /\ login.pc = "done"
    /\ login' = IdleLogin
    /\ UNCHANGED <<authData, beyond>>

AuthNext ==
    \/ \E credentials \in Credentials, mock \in BOOLEAN : login_call(credentials, mock)
    \/ login_mock
    \/ \E data \in ServerResponses : login_resolves(data)
    \/ \E error \in ApiErrors : login_rejects(error)
    \/ login_fallback
    \/ login_settled

AuthSpec == Init /\ [][AuthNext]_vars

\* C20: outside mock mode, when api.post rejects with a status of 500 or above or
\* without a response, login goes on to store the mock response with setAuthData
\* and resolves with it; when it rejects with a 4xx status, login rejects with that
\* error at once and what is stored stays as it was.
C20_LoginFallback ==
    [][/\ (login.pc = "post" /\ login'.error # NoError) =>
            /\ ~login'.mock
            /\ authData' = authData
            /\ IF (login'.error.response /\ login'.error.status >= 500)
                    \/ ~login'.error.response
               THEN login'.pc = "fallback"
               ELSE /\ login'.error.status \in 400..499
                    /\ login'.pc = "done" /\ login'.outcome = "rejected"
                    /\ login'.result = null
       /\ login.pc = "fallback" =>
            /\ login'.pc = "done" /\ login'.outcome = "resolved"
            /\ login'.result = mockAuthResponse
            /\ authData' = mockAuthResponse]_vars

\* a login has been rejected with 401, and what is stored is still the mock
\* response an earlier login fell back to
C20_Witness ==
    /\ login.pc = "done" /\ ~login.mock
    /\ login.outcome = "rejected" /\ login.error.status = 401
    /\ authData = mockAuthResponse

\* ------------------------------------------- updates among other records
StoredRows == 3    \* rows of the table the requests find

\* row i of the table: the requests name the first rows, the last belongs to the
\* other user; each was uploaded under a key of its own, at a time of its own
Stored(i) ==
    LET filename == [uuid |-> MaxUuid + i, ext |-> << >>]
        userId == IF i = StoredRows THEN 2 ELSE 1
    IN [ListRow(i) EXCEPT
           !.filename = filename,
           !.userId = userId,
           !.signedUrl = generateDownloadSignedUrl(Key(userId, filename), 1)]

\* a table of several rows, each with its blob in the bucket; `uuid` is the next
\* uuid() value
StoredInit(uuid) ==
    /\ db = {Stored(i) : i \in 1..StoredRows}
    /\ blobs = {[key |-> Key(f.userId, f.filename), contentType |-> f.contentType,
                 size |-> f.size] : f \in {Stored(i) : i \in 1..StoredRows}}
    /\ calls = [c \in Calls |-> Idle]
    /\ nextId = StoredRows + 1
    /\ nextUuid = uuid
    /\ pristine = {}
    /\ failedOn = {}
    /\ query = IdleQuery
    /\ uploadState = InitialUploadState
    /\ mutation = IdleMutation
    /\ requests = {}
    /\ cancelled = FALSE
    /\ authData = null
    /\ login = IdleLogin
    /\ logout = IdleLogout
    /\ pager = IdlePager

ReplaceInit == StoredInit(1)

\* gets, updates and deletes of the rows the requests name
ReplaceNext ==
    \/ \E c \in Calls, id \in Ids, userId \in Users : getFileById(c, id, userId)
    \/ \E c \in Calls : getFileById_update(c)
    \/ \E c \in Calls, id \in Ids, userId \in Users, fileData \in Payloads :
            updateFileById(c, id, userId, fileData)
    \/ \E c \in Calls : updateFileById_deleteFile(c)
    \/ \E c \in Calls : updateFileById_uploadData(c)
    \/ \E c \in Calls : updateFileById_update(c)
    \/ \E c \in Calls, id \in Ids, userId \in Users : deleteFileById(c, id, userId)
    \/ \E c \in Calls : deleteFileById_deleteFile(c)
    \/ \E c \in Calls : deleteFileById_delete(c)
    \/ \E c \in Calls : Return(c)

ReplaceSpec == ReplaceInit /\ [][ReplaceNext]_vars

\* the columns prisma.file.update of updateFileById is given
Replaced == {"filename", "originalName", "contentType", "size", "signedUrl"}

\* C28: the step with which an update returns success writes, of the row of its
\* id, the filename, originalName, contentType, size and signedUrl and no other
\* column (id, userId and uploadedAt are as before), the filename it writes is
\* neither the row's nor the one the call read, and every other row is as it was;
\* and no step of an update adds, changes or removes a blob at the key of a row
\* with another id: the bucket changes by the blob at the key the call read and by
\* the blob at the key it generated.
C28_UpdateFrame ==
    [][\A c \in Calls : (calls'[c].op = "update" /\ calls'[c] # calls[c]) =>
        /\ \A f \in db : f.id # calls'[c].id =>
              /\ f \in db'
              /\ BlobsAt(blobs', f) = BlobsAt(blobs, f)
        /\ Cardinality(db') = Cardinality(db)
        /\ \A b \in (blobs \ blobs') \cup (blobs' \ blobs) :
              /\ b.key.userId = calls'[c].userId
              /\ b.key.filename \in {calls'[c].file.filename, calls'[c].filename}
        /\ db' # db => ReturnsFrom(c, "u_sign") /\ calls'[c].result.kind = "ok"
        /\ (ReturnsFrom(c, "u_sign") /\ calls'[c].result.kind = "ok") =>
              LET before == Row(db, calls'[c].id)
                  after == Row(db', calls'[c].id)
              IN /\ DOMAIN after = DOMAIN before
                 /\ \A column \in DOMAIN before \ Replaced :
                       after[column] = before[column]
                 /\ after.id = before.id /\ after.userId = before.userId
                 /\ after.uploadedAt = before.uploadedAt
                 /\ after.filename \notin {before.filename, calls'[c].file.filename}
                 /\ \A f \in db : f.filename # after.filename]_vars

\* an update has returned success in a table of several rows: its row has a new
\* key and its upload time, and the other rows have their blobs
C28_Witness ==
    \E c \in Calls :
        /\ Returned(c, "update") /\ calls[c].result.kind = "ok"
        /\ calls[c].result.file \in db
        /\ calls[c].result.file.uploadedAt = Stored(calls[c].id).uploadedAt
        /\ calls[c].result.file.filename # Stored(calls[c].id).filename
        /\ \A i \in 1..StoredRows : i # calls[c].id =>
              Stored(i) \in db /\ Cardinality(BlobsAt(blobs, Stored(i))) = 1

\* ------------------------------------------------- gets and lists among writes
\* the options of the lists: the order alone
ReadOptions == {options \in Options : DOMAIN options \subseteq {"sortType"}}

\* the table of several rows, with one more key to be drawn
ReadInit == StoredInit(MaxUuid)

\* gets and lists, with the updates and deletes they may overlap
ReadNext ==
    \/ \E c \in Calls, id \in Ids, userId \in Users : getFileById(c, id, userId)
    \/ \E c \in Calls : getFileById_update(c)
    \/ \E userId \in Users, options \in ReadOptions : queryUserFiles(userId, options)
    \/ getFiles
    \/ \E c \in Calls, id \in Ids, userId \in Users, fileData \in Payloads :
            updateFileById(c, id, userId, fileData)
    \/ \E c \in Calls : updateFileById_deleteFile(c)
    \/ \E c \in Calls : updateFileById_uploadData(c)
    \/ \E c \in Calls : updateFileById_update(c)
    \/ \E c \in Calls, id \in Ids, userId \in Users : deleteFileById(c, id, userId)
    \/ \E c \in Calls : deleteFileById_deleteFile(c)
    \/ \E c \in Calls : deleteFileById_delete(c)
    \/ \E c \in Calls : Return(c)

ReadSpec == ReadInit /\ [][ReadNext]_vars

\* C30: no step of a get changes the bucket or the counters, adds a row or removes
\* one, or changes a row of another id; of the row of its id it changes the
\* signedUrl alone, in the step with which it returns, and that row is the
\* caller's. No step of a list changes the table or the bucket, and the rows a list
\* returns are rows of the table as they are, with the URLs they store.
C30_ReadsFrame ==
    [][/\ \A c \in Calls : (calls'[c].op = "get" /\ calls'[c] # calls[c]) =>
            /\ UNCHANGED <<blobs, nextId, nextUuid>>
            /\ {f.id : f \in db'} = {f.id : f \in db}
            /\ Cardinality(db') = Cardinality(db)
            /\ \A f \in db :
                  IF f.id = calls'[c].id
                  THEN [Row(db', f.id) EXCEPT !.signedUrl = f.signedUrl] = f
                  ELSE f \in db'
            /\ db' # db =>
                  /\ ReturnsFrom(c, "g_sign")
                  /\ Row(db', calls'[c].id).userId = calls'[c].userId
                  /\ Row(db', calls'[c].id).signedUrl = calls'[c].signedUrl
       /\ query' # query =>
            /\ UNCHANGED <<db, blobs, nextId, nextUuid, calls>>
            /\ \A i \in 1..Len(query'.files) : query'.files[i] \in db]_vars

\* a get that read the row before an update replaced it has written its URL: the
\* row keeps the key and the content the update gave it, and the other rows and
\* the blobs are as before
C30_Witness ==
    \E c \in Calls :
        /\ Returned(c, "get") /\ calls[c].error = "none"
        /\ Exists(db, calls[c].id)
        /\ Row(db, calls[c].id).signedUrl = calls[c].signedUrl
        /\ Row(db, calls[c].id).filename # calls[c].file.filename
        /\ Cardinality(BlobsAt(blobs, Row(db, calls[c].id))) = 1
        /\ \A i \in 1..StoredRows : i # calls[c].id =>
              Stored(i) \in db /\ Cardinality(BlobsAt(blobs, Stored(i))) = 1

\* --------------------------------------------------------- authService.logout
\* what a logout leaves alone
apart == <<db, blobs, calls, nextId, nextUuid, pristine, failedOn, query,
           uploadState, mutation, requests, cancelled, login, pager>>

\* getStoredRefreshToken(): the refresh token of what is stored, null when nothing is
getStoredRefreshToken == IF authData = null THEN null ELSE "refreshToken"

\* clearAuthData(): the browser forgets what it stored
clearAuthData == authData' = null

\* the call has made one more call of clearAuthData and is over
Cleared(call, outcome) ==
    [call EXCEPT !.pc = "done", !.outcome = outcome, !.cleared = call.cleared + 1]

\* logout is called: in mock mode it waits for mockApiDelay; with no refresh token
\* stored it clears and returns; otherwise it waits for api.post
logout_call(mock) ==
    /\ logout.pc = "idle"
    /\ LET call == [IdleLogout EXCEPT !.mock = mock]
       IN IF mock
          THEN /\ logout' = [call EXCEPT !.pc = "mockApiDelay"]
               /\ authData' = authData
          ELSE IF getStoredRefreshToken = null
          THEN /\ clearAuthData
               /\ logout' = Cleared(call, "resolved")
          ELSE /\ logout' = [call EXCEPT !.pc = "post",
                                         !.refreshToken = getStoredRefreshToken]
               /\ authData' = authData
    /\ UNCHANGED apart

\* mock mode, after mockApiDelay
logout_mock ==
    /\ logout.pc = "mockApiDelay"
    /\ clearAuthData
    /\ logout' = Cleared(logout, "resolved")
    /\ UNCHANGED apart

\* api.post resolves
logout_resolves ==
    /\ logout.pc = "post"
    /\ clearAuthData
    /\ logout' = Cleared(logout, "resolved")
    /\ UNCHANGED apart

\* a slip: an error that is passed on leaves what is stored
logout_rejects_KeepsData(error) ==
    /\ logout.pc = "post"
    /\ IF Fallback(error)
       THEN /\ clearAuthData
            /\ logout' = Cleared([logout EXCEPT !.error = error], "resolved")
       ELSE /\ authData' = authData
            /\ logout' = [logout EXCEPT !.pc = "done", !.error = error,
                                        !.outcome = "rejected"]
    /\ UNCHANGED apart

\* api.post rejects: the catch block clears on either branch (the condition is the
\* one of login), and rethrows on the second
logout_rejects(error) ==
    /\ logout.pc = "post"
    /\ clearAuthData
    /\ logout' = Cleared([logout EXCEPT !.error = error],
                         IF Fallback(error) THEN "resolved" ELSE "rejected")
    /\ UNCHANGED apart

\* the caller has the result
logout_settled ==
    /\ logout.pc = "done"
    /\ logout' = IdleLogout
    /\ UNCHANGED <<authData, apart>>

\* logins and logouts of one browser
LogoutNext ==
    \/ AuthNext
    \/ \E mock \in BOOLEAN : logout_call(mock)
    \/ logout_mock
    \/ logout_resolves
    \/ \E error \in ApiErrors : logout_rejects(error)
    \/ logout_settled

LogoutSpec == Init /\ [][LogoutNext]_vars

\* C21: the step with which a logout finishes, on every path (mock mode, no
\* refresh token stored, api.post resolved, api.post rejected with a status of 500
\* or above or without a response, where it resolves, api.post rejected with
\* another error, where it rejects with that error), includes the call's one call
\* of clearAuthData: nothing is stored after it.
C21_LogoutClears ==
    [][(logout.pc # "done" /\ logout'.pc = "done") =>
          /\ logout'.cleared = 1
          /\ authData' = null
          /\ logout'.outcome =
                IF logout'.error # NoError /\ logout'.error.response
                      /\ logout'.error.status < 500
                THEN "rejected" ELSE "resolved"
          /\ logout.pc \in {"idle", "mockApiDelay", "post"}
          /\ logout.pc = "idle" => (~logout'.mock /\ authData = null)
          /\ logout.pc = "mockApiDelay" => logout'.mock]_vars

\* a logout whose api.post was rejected with 401 has rejected, and what a login had
\* stored is cleared
C21_Witness ==
    /\ logout.pc = "done" /\ ~logout.mock
    /\ logout.refreshToken # null
    /\ logout.outcome = "rejected" /\ logout.error.status = 401
    /\ logout.cleared = 1 /\ authData = null
====
